---- MODULE Spec2Model ----
(***************************************************************************)
(* The BLS12-381 final-exponentiation STARK of src/final_exponentiate.rs:  *)
(* the trace builder (FinalExponentiateStark::new / generate_trace and the *)
(* six fill_trace_* helpers) and the constraint emitter                    *)
(* (eval_packed_generic and the five add_constraints_* helpers).           *)
(*                                                                         *)
(* The native Fp12 arithmetic (crate::native) and the five sub-STARKs      *)
(* (crate::fp12 ...) are not part of the file; they are modelled from the  *)
(* specification:                                                          *)
(*   - a non-zero element of Fp12 is g^e for a fixed generator g of the    *)
(*     cyclic group Fp12^*, of order p^12 - 1.  The exponent e is kept as  *)
(*     a polynomial  SUM c[i][j] * p^i * X^j  (i taken mod 12, because     *)
(*     p^12 = 1 on exponents; X = |BLS parameter|), so that the Frobenius  *)
(*     map, multiplication, division, conjugation and the cyclotomic       *)
(*     operations are exact integer operations on the coefficients;        *)
(*   - Canon turns such a polynomial into the exponent modulo p^12 - 1,    *)
(*     written in base p with the real 381-bit modulus (limbs of 30 bits), *)
(*     which is how two elements are compared.                             *)
(***************************************************************************)
EXTENDS Integers, Sequences, FiniteSets, TLC

(***************************************************************************)
(* Bounds of the model.                                                    *)
(***************************************************************************)
\* inputs are x = g^k for k in 0..MaxInputExp (k = 0 is x = 1)
MaxInputExp == 1
\* the largest trace height tried (one more than the ROW_SELECTORS block)
MaxRows == 8193
\* the smallest trace height tried
MinRows == 13
\* exponent polynomials carry the powers X^0 .. X^MaxDeg of the BLS parameter
MaxDeg == 5
\* the largest height of the traces whose ROW_SELECTORS cells are chosen freely
MaxSelRows == 3

(***************************************************************************)
(* Natural numbers as little-endian sequences of 30-bit limbs.             *)
(***************************************************************************)
LimbBase == 2^30

ZeroL(n) == [i \in 1..n |-> 0]

PadL(a, n) == [i \in 1..n |-> IF i <= Len(a) THEN a[i] ELSE 0]

RECURSIVE AddL(_, _, _, _)
AddL(a, b, c, i) ==
    IF i > Len(a) THEN <<>>
    ELSE LET s == a[i] + b[i] + c
         IN  <<s % LimbBase>> \o AddL(a, b, s \div LimbBase, i + 1)

RECURSIVE SubL(_, _, _, _)
SubL(a, b, c, i) ==
    IF i > Len(a) THEN <<>>
    ELSE LET s == a[i] - b[i] - c
         IN  IF s < 0 THEN <<s + LimbBase>> \o SubL(a, b, 1, i + 1)
             ELSE <<s>> \o SubL(a, b, 0, i + 1)

RECURSIVE GeL(_, _, _)
GeL(a, b, i) ==
    IF i = 0 THEN TRUE
    ELSE IF a[i] # b[i] THEN a[i] > b[i]
    ELSE GeL(a, b, i - 1)

RECURSIVE SmallMulL(_, _)
\* k * a for a small natural k
SmallMulL(k, a) ==
    IF k = 0 THEN ZeroL(Len(a))
    ELSE LET h == SmallMulL(k \div 2, a)
             d == AddL(h, h, 0, 1)
         IN  IF k % 2 = 1 THEN AddL(d, a, 0, 1) ELSE d

RECURSIVE MulBits(_, _, _, _)
\* acc * 2^(j+1) + m * (bits j..0 of the limb w)
MulBits(w, j, acc, m) ==
    IF j < 0 \/ Len(acc) = 0 THEN acc
    ELSE LET dbl == AddL(acc, acc, 0, 1)
         IN  MulBits(w, j - 1,
                     IF (w \div 2^j) % 2 = 1 THEN AddL(dbl, m, 0, 1) ELSE dbl, m)

RECURSIVE MulLimbs(_, _, _, _)
\* acc * 2^(30 i) + m * (limbs i..1 of a): with acc = 0 and i = Len(a), a * m
MulLimbs(a, i, acc, m) ==
    IF i = 0 \/ Len(acc) = 0 THEN acc
    ELSE MulLimbs(a, i - 1, MulBits(a[i], 29, acc, m), m)

MulL(a, m) == MulLimbs(a, Len(a), ZeroL(Len(m)), m)

(***************************************************************************)
(* The curve parameters (crate::native).                                   *)
(***************************************************************************)
\* p, the BLS12-381 base-field prime (381 bits)
Modulus ==
    <<1073719979, 670826495, 356515835, 721420204, 821437470, 55215066, 288093811,
      316751073, 752313463, 517541166, 698659258, 982409209, 1704209>>

\* r, the order of the pairing subgroup (255 bits)
SubgroupOrder ==
    <<1, 1073741820, 1072021487, 795410623, 567805267, 660611110, 399803187,
      701811303, 29677>>

\* X = 0xd201000000010000, the absolute value of the (negative) BLS parameter
BlsX == <<65536, 134479872, 13>>

NLimbs == Len(Modulus)

\* digits of an exponent in base p
NDigits == 12

OneL == PadL(<<1>>, NLimbs)

PM1 == SubL(Modulus, OneL, 0, 1)

(***************************************************************************)
(* Exponents modulo p^12 - 1 in base p: NDigits digits below p.            *)
(***************************************************************************)
ZeroE == [i \in 1..NDigits |-> ZeroL(NLimbs)]

AllPM1 == [i \in 1..NDigits |-> PM1]

\* p^12 - 1 is 0
NormE(a) == IF a = AllPM1 THEN ZeroE ELSE a

\* one digit of a sum, with the carry out
AddDigit(a, b, c) ==
    LET s == AddL(a, b, c, 1)
    IN  IF GeL(s, Modulus, NLimbs) THEN [d |-> SubL(s, Modulus, 0, 1), c |-> 1]
        ELSE [d |-> s, c |-> 0]

RECURSIVE AddDigits(_, _, _, _)
AddDigits(a, b, c, i) ==
    IF i > NDigits THEN <<c>>
    ELSE LET r == AddDigit(a[i], b[i], c)
         IN  <<r.d>> \o AddDigits(a, b, r.c, i + 1)

\* a + b modulo p^12 - 1: the carry out of the top digit comes back in at the bottom
AddE(a, b) ==
    LET s1 == AddDigits(a, b, 0, 1)
        s2 == IF s1[NDigits + 1] = 0 THEN s1
              ELSE AddDigits(SubSeq(s1, 1, NDigits), ZeroE, 1, 1)
    IN  NormE(SubSeq(s2, 1, NDigits))

NegE(a) == NormE([i \in 1..NDigits |-> SubL(PM1, a[i], 0, 1)])

RECURSIVE TimesE(_, _)
\* k * a modulo p^12 - 1 for a small natural k
TimesE(k, a) ==
    IF k = 0 THEN ZeroE
    ELSE LET h == TimesE(k \div 2, a)
             d == AddE(h, h)
         IN  IF k % 2 = 1 THEN AddE(d, a) ELSE d

(***************************************************************************)
(* (p^12 - 1) / r by long division in base p: the dividend has the twelve  *)
(* digits p - 1; each step divides rem * p + (p - 1) by r.                 *)
(***************************************************************************)
\* limbs of the subgroup order, and of a dividend rem * p + (p - 1)
RLimbs == Len(SubgroupOrder)

DivLimbsLen == NLimbs + RLimbs

RECURSIVE DivBits(_, _, _, _)
\* restoring division by r over the bits j..0 of the limb w
DivBits(w, j, rem, q) ==
    IF j < 0 \/ Len(rem) = 0 \/ q < 0 THEN [q |-> q, r |-> rem]
    ELSE LET r2 == AddL(rem, rem, (w \div 2^j) % 2, 1)
             ge == GeL(r2, SubgroupOrder, RLimbs)
         IN  DivBits(w, j - 1, IF ge THEN SubL(r2, SubgroupOrder, 0, 1) ELSE r2,
                     2 * q + (IF ge THEN 1 ELSE 0))

RECURSIVE DivLimbs(_, _, _, _)
DivLimbs(num, i, rem, q) ==
    IF i = 0 \/ Len(rem) = 0 THEN [q |-> q, r |-> rem]
    ELSE LET d == DivBits(num[i], 29, rem, 0)
         IN  DivLimbs(num, i - 1, d.r, <<d.q>> \o q)

RECURSIVE LongDiv(_, _, _)
LongDiv(i, rem, acc) ==
    IF i = 0 \/ Len(rem) = 0 THEN [q |-> acc, r |-> rem]
    ELSE LET num == AddL(MulL(rem, PadL(Modulus, DivLimbsLen)),
                        PadL(PM1, DivLimbsLen), 0, 1)
             dr == DivLimbs(num, DivLimbsLen, ZeroL(RLimbs), <<>>)
         IN  LongDiv(i - 1, dr.r, <<SubSeq(dr.q, 1, NLimbs)>> \o acc)

FinalExpDivision == LongDiv(NDigits, ZeroL(RLimbs), <<>>)

\* the exponent (p^12 - 1) / r of the final exponentiation
FinalExpExponent == FinalExpDivision.q

(***************************************************************************)
(* Exponent polynomials: e[i][j] is the coefficient of p^i * X^j.          *)
(***************************************************************************)
ExpZero == [i \in 0..(NDigits - 1) |-> [j \in 0..MaxDeg |-> 0]]

\* the exponent k (the element g^k)
ExpConst(k) ==
    [i \in 0..(NDigits - 1) |-> [j \in 0..MaxDeg |-> IF i = 0 /\ j = 0 THEN k ELSE 0]]

ExpAdd(a, b) == [i \in 0..(NDigits - 1) |-> [j \in 0..MaxDeg |-> a[i][j] + b[i][j]]]

ExpNeg(a) == [i \in 0..(NDigits - 1) |-> [j \in 0..MaxDeg |-> 0 - a[i][j]]]

\* times p^k
ExpTimesP(a, k) == [i \in 0..(NDigits - 1) |-> a[(i + NDigits - (k % NDigits)) % NDigits]]

\* times X; the polynomial must have room for one more power of X
ExpTimesX(a) ==
    IF \E i \in 0..(NDigits - 1) : a[i][MaxDeg] # 0 THEN <<>>
    ELSE [i \in 0..(NDigits - 1) |->
            [j \in 0..MaxDeg |-> IF j = 0 THEN 0 ELSE a[i][j - 1]]]

RECURSIVE XPower(_)
\* X^j as a number of NLimbs limbs
XPower(j) == IF j = 0 THEN OneL ELSE MulL(PadL(BlsX, NLimbs), XPower(j - 1))

XPowers == [j \in 0..MaxDeg |-> XPower(j)]

RECURSIVE DigitOf(_, _, _)
\* SUM over j' <= j of max(sign * c[j'], 0) * X^j'
DigitOf(c, sign, j) ==
    IF j < 0 THEN ZeroL(NLimbs)
    ELSE LET k == IF sign * c[j] > 0 THEN sign * c[j] ELSE 0
         IN  AddL(DigitOf(c, sign, j - 1), SmallMulL(k, XPowers[j]), 0, 1)

\* the exponent modulo p^12 - 1, in base p
Canon(a) ==
    LET pos == [i \in 1..NDigits |-> DigitOf(a[i - 1], 1, MaxDeg)]
        neg == [i \in 1..NDigits |-> DigitOf(a[i - 1], -1, MaxDeg)]
    IN  AddE(NormE(pos), NegE(NormE(neg)))

(***************************************************************************)
(* The native Fp12 operations (crate::native::Fp12), on exponents.         *)
(***************************************************************************)
\* x.forbenius_map(pow): x^(p^pow)
forbenius_map(a, pow) == ExpTimesP(a, pow)

\* x * y
Fp12Mul(a, b) == ExpAdd(a, b)

\* x / y
Fp12Div(a, b) == ExpAdd(a, ExpNeg(b))

\* x.conjugate(): the conjugation of Fp12 over Fp6, x^(p^6)
conjugate(a) == ExpTimesP(a, 6)

\* x.cyclotomicSquare(): x^2 on the cyclotomic subgroup
cyclotomicSquare(a) == ExpAdd(a, a)

\* x.cyclotocmicExponent(): x^X on the cyclotomic subgroup
cyclotocmicExponent(a) == ExpTimesX(a)

\* the cyclotomic subgroup: the elements killed by p^4 - p^2 + 1
InCyclotomicSubgroup(a) ==
    Canon(ExpAdd(ExpTimesP(a, 4), ExpAdd(ExpNeg(ExpTimesP(a, 2)), a))) = ZeroE

(***************************************************************************)
(* Column layout (lines 36-76), row schedule (lines 78-116) and public     *)
(* inputs (lines 121-123).                                                 *)
(***************************************************************************)
FINAL_EXP_ROW_SELECTORS == 0
FINAL_EXP_FORBENIUS_MAP_SELECTOR == FINAL_EXP_ROW_SELECTORS + 8192
FINAL_EXP_CYCLOTOMIC_EXP_SELECTOR == FINAL_EXP_FORBENIUS_MAP_SELECTOR + 1
FINAL_EXP_MUL_SELECTOR == FINAL_EXP_CYCLOTOMIC_EXP_SELECTOR + 1
FINAL_EXP_CYCLOTOMIC_SQ_SELECTOR == FINAL_EXP_MUL_SELECTOR + 1
FINAL_EXP_CONJUGATE_SELECTOR == FINAL_EXP_CYCLOTOMIC_SQ_SELECTOR + 1
FINAL_EXP_INPUT_OFFSET == FINAL_EXP_CONJUGATE_SELECTOR + 1
FINAL_EXP_T0_OFFSET == FINAL_EXP_INPUT_OFFSET + 12*12

\* FINAL_EXP_Tk_OFFSET: each is the one before plus 12*12
FINAL_EXP_T_OFFSET(k) == FINAL_EXP_T0_OFFSET + k * (12*12)

FINAL_EXP_OP_OFFSET == FINAL_EXP_T_OFFSET(31) + 12*12

FP12_MUL_ROWS == 12
FP12_FORBENIUS_MAP_ROWS == 12
CYCLOTOMIC_SQ_ROWS == 12
CONJUGATE_ROWS == 1
CYCLOTOMIC_EXP_ROWS == 70*12 + 1

\* the row constant added in the definition of T1_ROW, ..., T31_ROW, TOTAL_ROW
T_ROW_ADDEND ==
    << FP12_FORBENIUS_MAP_ROWS, FP12_MUL_ROWS, FP12_FORBENIUS_MAP_ROWS, FP12_MUL_ROWS,
       CYCLOTOMIC_EXP_ROWS, CONJUGATE_ROWS, CYCLOTOMIC_SQ_ROWS, CONJUGATE_ROWS,
       FP12_MUL_ROWS, CYCLOTOMIC_EXP_ROWS, CONJUGATE_ROWS, CYCLOTOMIC_EXP_ROWS,
       CONJUGATE_ROWS, CYCLOTOMIC_EXP_ROWS, CONJUGATE_ROWS, CYCLOTOMIC_SQ_ROWS,
       FP12_MUL_ROWS, CYCLOTOMIC_EXP_ROWS, CONJUGATE_ROWS, FP12_MUL_ROWS,
       FP12_FORBENIUS_MAP_ROWS, FP12_MUL_ROWS, FP12_FORBENIUS_MAP_ROWS, CONJUGATE_ROWS,
       FP12_MUL_ROWS, FP12_FORBENIUS_MAP_ROWS, CONJUGATE_ROWS, FP12_MUL_ROWS,
       FP12_MUL_ROWS, FP12_MUL_ROWS, FP12_MUL_ROWS, FP12_MUL_ROWS >>

RECURSIVE RowSum(_)
RowSum(k) == IF k = 0 THEN 0 ELSE RowSum(k - 1) + T_ROW_ADDEND[k]

\* T_ROW[k] is Tk_ROW for k in 0..31, and T_ROW[32] is TOTAL_ROW
T_ROW == [k \in 0..Len(T_ROW_ADDEND) |-> RowSum(k)]

TOTAL_ROW == T_ROW[32]

PIS_INPUT_OFFSET == 0
PIS_OUTPUT_OFFSET == PIS_INPUT_OFFSET + 24*3*2
PUBLIC_INPUTS == PIS_OUTPUT_OFFSET + 24*3*2

(***************************************************************************)
(* The calls of generate_trace (lines 235-266), in order.  a and b are the *)
(* operands: -1 is x, k is the local tk.                                   *)
(***************************************************************************)
\* a variant of GenCall that passes T(k+1)_ROW itself as the last row of the call
GenCallInclusiveEnd(fn, a, b, pow, k) ==
    [fn |-> fn, a |-> a, b |-> b, pow |-> pow,
     start_row |-> T_ROW[k], end_row |-> T_ROW[k + 1],
     output_col |-> FINAL_EXP_T_OFFSET(k)]

GenCall(fn, a, b, pow, k) ==
    [fn |-> fn, a |-> a, b |-> b, pow |-> pow,
     start_row |-> T_ROW[k], end_row |-> T_ROW[k + 1] - 1,
     output_col |-> FINAL_EXP_T_OFFSET(k)]

GenerateTraceCalls ==
    << GenCall("forbenius", -1, -1, 6, 0),
       GenCall("div", 0, -1, 0, 1),
       GenCall("forbenius", 1, -1, 2, 2),
       GenCall("mul", 2, 1, 0, 3),
       GenCall("cyc_exp", 3, -1, 0, 4),
       GenCall("conjugate", 4, -1, 0, 5),
       GenCall("cyc_sq", 3, -1, 0, 6),
       GenCall("conjugate", 6, -1, 0, 7),
       GenCall("mul", 7, 5, 0, 8),
       GenCall("cyc_exp", 8, -1, 0, 9),
       GenCall("conjugate", 9, -1, 0, 10),
       GenCall("cyc_exp", 10, -1, 0, 11),
       GenCall("conjugate", 11, -1, 0, 12),
       GenCall("cyc_exp", 12, -1, 0, 13),
       GenCall("conjugate", 13, -1, 0, 14),
       GenCall("cyc_sq", 5, -1, 0, 15),
       GenCall("mul", 14, 15, 0, 16),
       GenCall("cyc_exp", 16, -1, 0, 17),
       GenCall("conjugate", 17, -1, 0, 18),
       GenCall("mul", 5, 12, 0, 19),
       GenCall("forbenius", 19, -1, 2, 20),
       GenCall("mul", 10, 3, 0, 21),
       GenCall("forbenius", 21, -1, 3, 22),
       GenCall("conjugate", 3, -1, 0, 23),
       GenCall("mul", 16, 23, 0, 24),
       GenCall("forbenius", 24, -1, 1, 25),
       GenCall("conjugate", 8, -1, 0, 26),
       GenCall("mul", 18, 26, 0, 27),
       GenCall("mul", 27, 3, 0, 28),
       GenCall("mul", 20, 22, 0, 29),
       GenCall("mul", 29, 25, 0, 30),
       GenCall("mul", 30, 28, 0, 31) >>

NumCalls == Len(GenerateTraceCalls)

(***************************************************************************)
(* State.                                                                  *)
(*   pc        where the program is: "start", "constructed" (after new),   *)
(*             "filling" (inside generate_trace), "done" (trace returned), *)
(*             "panicked" (index out of bounds inside generate_trace),     *)
(*             "tampered" (a returned trace with one cell changed)         *)
(*   num_rows  FinalExponentiateStark.num_rows                             *)
(*   x         the argument of generate_trace (an exponent polynomial)     *)
(*   t         the locals t0, t1, ... computed so far                      *)
(*   call      the number of fill_trace_* calls made                       *)
(*   trace     the trace matrix, as the writes made to the all-zero matrix *)
(*             of len rows, by column block:                               *)
(*               ones      the writes of ONE to the columns below          *)
(*                         FINAL_EXP_INPUT_OFFSET (row selectors and kind  *)
(*                         selectors): in the rows lo..hi, to the column   *)
(*                         col (or, with diag, to col + row - lo)          *)
(*               reg[b]    the writes to the register block b (b = 0 is    *)
(*                         INPUT, b = k + 1 is Tk), in order: in the rows  *)
(*                         lo..hi, of the Fp12 ref (1 is x, k + 2 is tk)   *)
(*               op        the writes to the OP block, in order: in the    *)
(*                         rows lo..hi, of the sub-trace s (an index of    *)
(*                         sub)                                            *)
(*               changed   the register cells <<row, column>> that hold    *)
(*                         another value than the one reg says (none in a  *)
(*                         trace generate_trace builds)                    *)
(*   sub       the sub-traces written into the OP block, one per call      *)
(***************************************************************************)
VARIABLES pc, num_rows, x, t, call, trace, sub

vars == <<pc, num_rows, x, t, call, trace, sub>>

NoTrace == [len |-> 0, ones |-> {}, reg |-> <<>>, op |-> <<>>, changed |-> {}]

\* trace.len()
TraceLen(tr) == tr.len

\* the last of the writes ws[1..i] that covers the row r (0 when none does)
RECURSIVE LastWriteTo(_, _, _)
LastWriteTo(ws, i, r) ==
    IF i = 0 THEN 0
    ELSE IF ws[i].lo <= r /\ r <= ws[i].hi THEN i
    ELSE LastWriteTo(ws, i - 1, r)

\* the columns below FINAL_EXP_INPUT_OFFSET that hold ONE in the row r
OnesIn(tr, r) ==
    {IF w.diag THEN w.col + (r - w.lo) ELSE w.col :
        w \in {v \in tr.ones : v.lo <= r /\ r <= v.hi}}

\* the Fp12 the register block b holds in the row r (0 for the all-zero block)
RegIn(tr, b, r) ==
    LET i == LastWriteTo(tr.reg[b], Len(tr.reg[b]), r)
    IN  IF i = 0 THEN 0 ELSE tr.reg[b][i].ref

\* the sub-trace that wrote the OP block of the row r (0 for an all-zero block)
OpIn(tr, r) ==
    LET i == LastWriteTo(tr.op, Len(tr.op), r)
    IN  IF i = 0 THEN 0 ELSE tr.op[i].s

\* the register block that starts at column col
RegBlock(col) == (col - FINAL_EXP_INPUT_OFFSET) \div (12*12)

\* the value the block reference ref stands for
RefOfLocal(k) == k + 2

Local(k) == IF k = -1 THEN x ELSE t[k + 1]

\* the heights new is called with
TraceHeights ==
    {MinRows, TOTAL_ROW - 1, TOTAL_ROW, FINAL_EXP_FORBENIUS_MAP_SELECTOR, MaxRows}

Init ==
    /\ pc = "start"
    /\ num_rows = 0
    /\ x = ExpZero
    /\ t = <<>>
    /\ call = 0
    /\ trace = NoTrace
    /\ sub = <<>>

\* FinalExponentiateStark::new (lines 222-227)
New ==
    /\ pc = "start"
    /\ \E n \in TraceHeights : num_rows' = n
    /\ pc' = "constructed"
    /\ UNCHANGED <<x, t, call, trace, sub>>

\* trace[row][col] = F::ONE for the rows in rows
SetOne(tr, start, end, col) ==
    IF start > end THEN tr
    ELSE [tr EXCEPT !.ones = @ \cup {[lo |-> start, hi |-> end, col |-> col, diag |-> FALSE]}]

\* assign_u32_in_series(trace, row, col, limbs of the value ref) for every row
AssignAllRows(tr, col, ref) ==
    [tr EXCEPT !.reg[RegBlock(col)] =
        Append(@, [lo |-> 0, hi |-> TraceLen(tr) - 1, ref |-> ref])]

\* the sub-trace number s written over the OP block of the rows start..end
FillOp(tr, start, end, s) ==
    [tr EXCEPT !.op = Append(@, [lo |-> start, hi |-> end, s |-> s])]

\* generate_trace, lines 230-234: allocation, row selectors, INPUT
GenerateTraceBegin ==
    /\ pc = "constructed"
    /\ \E k \in 0..MaxInputExp : x' = ExpConst(k)
    /\ trace' = AssignAllRows(
                    [len  |-> num_rows,
                     ones |-> {[lo |-> 0, hi |-> num_rows - 1,
                                col |-> FINAL_EXP_ROW_SELECTORS, diag |-> TRUE]},
                     reg  |-> [b \in 0..NumCalls |-> <<>>],
                     op   |-> <<>>,
                     changed |-> {}],
                    FINAL_EXP_INPUT_OFFSET, 1)
    /\ pc' = "filling"
    /\ t' = <<>>
    /\ call' = 0
    /\ sub' = <<>>
    /\ UNCHANGED num_rows

(***************************************************************************)
(* The sub-builders fill_trace_fp12_forbenius_map, fill_trace_fp12_        *)
(* multiplication, fill_trace_cyclotomic_exp, fill_trace_fp12_conjugate    *)
(* and fill_trace_cyclotomic_sq write the OP block of the rows             *)
(* start_row..end_row with the witness of one native operation.            *)
(***************************************************************************)
SubTrace(kind, a, b, z, pow, start, end) ==
    [kind |-> kind, x |-> a, y |-> b, z |-> z, pow |-> pow,
     start_row |-> start, end_row |-> end]

fill_trace_fp12_forbenius_map(a, pow, start, end) ==
    SubTrace("forbenius", a, ExpZero, forbenius_map(a, pow), pow, start, end)

fill_trace_fp12_multiplication(a, b, start, end) ==
    SubTrace("mul", a, b, Fp12Mul(a, b), 0, start, end)

fill_trace_cyclotomic_exp(a, start, end) ==
    SubTrace("cyc_exp", a, ExpZero, cyclotocmicExponent(a), 0, start, end)

fill_trace_fp12_conjugate(a, row) ==
    SubTrace("conjugate", a, ExpZero, conjugate(a), 0, row, row)

fill_trace_cyclotomic_sq(a, start, end) ==
    SubTrace("cyc_sq", a, ExpZero, cyclotomicSquare(a), 0, start, end)

(***************************************************************************)
(* The body the fill_trace_* helpers share: the selector loop over         *)
(* start_row..end_row (which indexes out of bounds, and panics, at the     *)
(* first row that is not below trace.len()), the loop writing res into     *)
(* output_col in the rows 0..trace.len()-1, the sub-builder's call.        *)
(***************************************************************************)
\* a variant of FillTrace that writes res in the rows start_row..end_row only
FillTraceRangeOnly(c, selector, res, s) ==
    IF c.end_row >= TraceLen(trace)
    THEN /\ trace' = SetOne(trace, c.start_row, TraceLen(trace) - 1, selector)
         /\ pc' = "panicked"
         /\ UNCHANGED <<num_rows, x, t, call, sub>>
    ELSE /\ trace' = FillOp([SetOne(trace, c.start_row, c.end_row, selector)
                                EXCEPT !.reg[RegBlock(c.output_col)] =
                                    Append(@, [lo |-> c.start_row, hi |-> c.end_row,
                                               ref |-> RefOfLocal(call)])],
                            s.start_row, s.end_row, Len(sub) + 1)
         /\ t' = Append(t, res)
         /\ sub' = Append(sub, s)
         /\ call' = call + 1
         /\ UNCHANGED <<pc, num_rows, x>>

\* a variant of FillTrace that skips the rows that are not below trace.len()
FillTraceClipped(c, selector, res, s) ==
    /\ trace' = FillOp(AssignAllRows(SetOne(trace, c.start_row, c.end_row, selector),
                                     c.output_col, RefOfLocal(call)),
                       s.start_row, s.end_row, Len(sub) + 1)
    /\ t' = Append(t, res)
    /\ sub' = Append(sub, s)
    /\ call' = call + 1
    /\ UNCHANGED <<pc, num_rows, x>>

FillTrace(c, selector, res, s) ==
    IF c.end_row >= TraceLen(trace)
    THEN /\ trace' = SetOne(trace, c.start_row, TraceLen(trace) - 1, selector)
         /\ pc' = "panicked"
         /\ UNCHANGED <<num_rows, x, t, call, sub>>
    ELSE /\ trace' = FillOp(AssignAllRows(SetOne(trace, c.start_row, c.end_row, selector),
                                          c.output_col, RefOfLocal(call)),
                            s.start_row, s.end_row, Len(sub) + 1)
         /\ t' = Append(t, res)
         /\ sub' = Append(sub, s)
         /\ call' = call + 1
         /\ UNCHANGED <<pc, num_rows, x>>

\* the call generate_trace makes next
NextCall == GenerateTraceCalls[call + 1]

Calling(fn) == pc = "filling" /\ call < NumCalls /\ NextCall.fn = fn

\* fill_trace_forbenius (lines 132-145)
FillTraceForbenius ==
    /\ Calling("forbenius")
    /\ LET c == NextCall
           a == Local(c.a)
       IN  FillTrace(c, FINAL_EXP_FORBENIUS_MAP_SELECTOR, forbenius_map(a, c.pow),
                     fill_trace_fp12_forbenius_map(a, c.pow, c.start_row, c.end_row))

\* fill_trace_mul (lines 147-160)
FillTraceMul ==
    /\ Calling("mul")
    /\ LET c == NextCall
           a == Local(c.a)
           b == Local(c.b)
       IN  FillTrace(c, FINAL_EXP_MUL_SELECTOR, Fp12Mul(a, b),
                     fill_trace_fp12_multiplication(a, b, c.start_row, c.end_row))

\* a variant of fill_trace_div that multiplies x by y
FillTraceDivMultiplies ==
    /\ Calling("div")
    /\ LET c == NextCall
           a == Local(c.a)
           b == Local(c.b)
           res == Fp12Mul(a, b)
       IN  FillTrace(c, FINAL_EXP_MUL_SELECTOR, res,
                     fill_trace_fp12_multiplication(res, b, c.start_row, c.end_row))

\* a variant of fill_trace_div that fills the multiplication sub-trace with (x, y)
FillTraceDivOperandsAsGiven ==
    /\ Calling("div")
    /\ LET c == NextCall
           a == Local(c.a)
           b == Local(c.b)
           res == Fp12Div(a, b)
       IN  FillTrace(c, FINAL_EXP_MUL_SELECTOR, res,
                     fill_trace_fp12_multiplication(a, b, c.start_row, c.end_row))

\* fill_trace_div (lines 162-175): the multiplication sub-trace is filled with (res, y)
FillTraceDiv ==
    /\ Calling("div")
    /\ LET c == NextCall
           a == Local(c.a)
           b == Local(c.b)
           res == Fp12Div(a, b)
       IN  FillTrace(c, FINAL_EXP_MUL_SELECTOR, res,
                     fill_trace_fp12_multiplication(res, b, c.start_row, c.end_row))

\* fill_trace_cyc_exp (lines 177-190)
FillTraceCycExp ==
    /\ Calling("cyc_exp")
    /\ LET c == NextCall
           a == Local(c.a)
       IN  FillTrace(c, FINAL_EXP_CYCLOTOMIC_EXP_SELECTOR, cyclotocmicExponent(a),
                     fill_trace_cyclotomic_exp(a, c.start_row, c.end_row))

\* fill_trace_conjugate (lines 192-203): one row, c.start_row
FillTraceConjugate ==
    /\ Calling("conjugate")
    /\ LET c == NextCall
           a == Local(c.a)
       IN  FillTrace([c EXCEPT !.end_row = c.start_row], FINAL_EXP_CONJUGATE_SELECTOR,
                     conjugate(a), fill_trace_fp12_conjugate(a, c.start_row))

\* fill_trace_cyc_sq (lines 205-218)
FillTraceCycSq ==
    /\ Calling("cyc_sq")
    /\ LET c == NextCall
           a == Local(c.a)
       IN  FillTrace(c, FINAL_EXP_CYCLOTOMIC_SQ_SELECTOR, cyclotomicSquare(a),
                     fill_trace_cyclotomic_sq(a, c.start_row, c.end_row))

(***************************************************************************)
(* Constraints.  A constraint family is one yield_constr call inside its   *)
(* innermost loop: for the instances i in 0..n-1 the polynomial            *)
(*     gate[1] * ... * gate[m] * (a - b)                                   *)
(* filtered by when: "every" (constraint), "first" (constraint_first_row), *)
(* "last" (constraint_last_row) or "transition" (constraint_transition).   *)
(* A term names, for the instance i, the cell base + step * i of the local *)
(* or of the next row, a public input, or a constant.  A column of the OP  *)
(* block is named by the offset expression the source adds to              *)
(* FINAL_EXP_OP_OFFSET (op) and the index behind it (base).                *)
(***************************************************************************)
local_values(op, base, step) == [src |-> "local", op |-> op, base |-> base, step |-> step]

next_values(op, base, step) == [src |-> "next", op |-> op, base |-> base, step |-> step]

public_inputs(base) == [src |-> "pis", op |-> "", base |-> base, step |-> 1]

from_canonical_usize(v) == [src |-> "const", op |-> "", base |-> v, step |-> 0]

ZEROS == from_canonical_usize(0)

ONES == from_canonical_usize(1)

\* "if i == j { P::ONES } else { P::ZEROS }" for the instance i
OnesAt(j) == [src |-> "unit", op |-> "", base |-> j, step |-> 0]

\* the constraint set of the sub-STARK kind, evaluated on the OP block of the row
SubStark(kind) == [src |-> "substark", op |-> kind, base |-> 0, step |-> 0]

Constraint(when, gate, a, b, n) == [when |-> when, gate |-> gate, a |-> a, b |-> b, n |-> n]

\* the five kind selector columns, in column order
KindSelectors ==
    << FINAL_EXP_FORBENIUS_MAP_SELECTOR, FINAL_EXP_CYCLOTOMIC_EXP_SELECTOR,
       FINAL_EXP_MUL_SELECTOR, FINAL_EXP_CYCLOTOMIC_SQ_SELECTOR,
       FINAL_EXP_CONJUGATE_SELECTOR >>

\* the five constraints per row i in row..row+rows-1: the selector own equals ONES,
\* the four others are zero
KindExclusivity(row, rows, own) ==
    { Constraint("every", <<local_values("", FINAL_EXP_ROW_SELECTORS + row, 1)>>,
                 local_values("", KindSelectors[s], 0),
                 IF KindSelectors[s] = own THEN ONES ELSE ZEROS, rows) : s \in 1..5 }

\* the offsets of the twelve Fp outputs of the Frobenius sub-trace (lines 334-358)
FORBENIUS_OUTPUT_OFFSET ==
    << "FP12_FORBENIUS_MAP_R0_CALC_OFFSET + FP6_FORBENIUS_MAP_X_CALC_OFFSET + FP2_FORBENIUS_MAP_INPUT_OFFSET",
       "FP12_FORBENIUS_MAP_R0_CALC_OFFSET + FP6_FORBENIUS_MAP_X_CALC_OFFSET + FP2_FORBENIUS_MAP_T0_CALC_OFFSET + FP_MULTIPLICATION_TOTAL_COLUMNS + REDUCED_OFFSET",
       "FP12_FORBENIUS_MAP_R0_CALC_OFFSET + FP6_FORBENIUS_MAP_Y_CALC_OFFSET + Z1_REDUCE_OFFSET + REDUCED_OFFSET",
       "FP12_FORBENIUS_MAP_R0_CALC_OFFSET + FP6_FORBENIUS_MAP_Y_CALC_OFFSET + Z2_REDUCE_OFFSET + REDUCED_OFFSET",
       "FP12_FORBENIUS_MAP_R0_CALC_OFFSET + FP6_FORBENIUS_MAP_Z_CALC_OFFSET + Z1_REDUCE_OFFSET + REDUCED_OFFSET",
       "FP12_FORBENIUS_MAP_R0_CALC_OFFSET + FP6_FORBENIUS_MAP_Z_CALC_OFFSET + Z2_REDUCE_OFFSET + REDUCED_OFFSET",
       "FP12_FORBENIUS_MAP_C0_CALC_OFFSET + Z1_REDUCE_OFFSET + REDUCED_OFFSET",
       "FP12_FORBENIUS_MAP_C0_CALC_OFFSET + Z2_REDUCE_OFFSET + REDUCED_OFFSET",
       "FP12_FORBENIUS_MAP_C1_CALC_OFFSET + Z1_REDUCE_OFFSET + REDUCED_OFFSET",
       "FP12_FORBENIUS_MAP_C1_CALC_OFFSET + Z2_REDUCE_OFFSET + REDUCED_OFFSET",
       "FP12_FORBENIUS_MAP_C2_CALC_OFFSET + Z1_REDUCE_OFFSET + REDUCED_OFFSET",
       "FP12_FORBENIUS_MAP_C2_CALC_OFFSET + Z2_REDUCE_OFFSET + REDUCED_OFFSET" >>

\* x_y of add_constraints_mul (lines 422-426), for k = 0 and k = 1
MUL_OUTPUT_OFFSET ==
    << "FP12_MUL_X_CALC_OFFSET + FP6_ADDITION_TOTAL",
       "FP12_MUL_Y_CALC_OFFSET + FP6_ADDITION_TOTAL + FP6_SUBTRACTION_TOTAL" >>

\* c_offset + FP2_ADDITION_TOTAL of add_constraints_cyc_sq (lines 592-606), for j = 0..5
CYCLOTOMIC_SQ_OUTPUT_OFFSET ==
    << "CYCLOTOMIC_SQ_C0_CALC_OFFSET + FP2_ADDITION_TOTAL",
       "CYCLOTOMIC_SQ_C1_CALC_OFFSET + FP2_ADDITION_TOTAL",
       "CYCLOTOMIC_SQ_C2_CALC_OFFSET + FP2_ADDITION_TOTAL",
       "CYCLOTOMIC_SQ_C3_CALC_OFFSET + FP2_ADDITION_TOTAL",
       "CYCLOTOMIC_SQ_C4_CALC_OFFSET + FP2_ADDITION_TOTAL",
       "CYCLOTOMIC_SQ_C5_CALC_OFFSET + FP2_ADDITION_TOTAL" >>

\* local_values[FINAL_EXP_ROW_SELECTORS + row], the same cell for every instance
StartRowGate(row) == <<local_values("", FINAL_EXP_ROW_SELECTORS + row, 0)>>

\* a variant of add_constraints_forbenius that leaves FINAL_EXP_MUL_SELECTOR free
add_constraints_forbenius_mul_free(row, input_col, output_col, pow) ==
    { f \in KindExclusivity(row, FP12_FORBENIUS_MAP_ROWS, FINAL_EXP_FORBENIUS_MAP_SELECTOR)
        : f.a.base # FINAL_EXP_MUL_SELECTOR }
    \cup { Constraint("every", StartRowGate(row), local_values("", input_col, 1),
                      local_values("FP12_FORBENIUS_MAP_INPUT_OFFSET", 0, 1), 24*3*2),
           Constraint("every", StartRowGate(row),
                      local_values("FP12_FORBENIUS_MAP_POW_OFFSET", 0, 0),
                      from_canonical_usize(pow), 1) }
    \cup { Constraint("every", StartRowGate(row),
                      local_values(FORBENIUS_OUTPUT_OFFSET[j + 1], 0, 1),
                      local_values("", output_col + j*12, 1), 12) : j \in 0..11 }

\* a variant of add_constraints_forbenius that does not constrain the power
add_constraints_forbenius_no_pow(row, input_col, output_col, pow) ==
    KindExclusivity(row, FP12_FORBENIUS_MAP_ROWS, FINAL_EXP_FORBENIUS_MAP_SELECTOR)
    \cup { Constraint("every", StartRowGate(row), local_values("", input_col, 1),
                      local_values("FP12_FORBENIUS_MAP_INPUT_OFFSET", 0, 1), 24*3*2) }
    \cup { Constraint("every", StartRowGate(row),
                      local_values(FORBENIUS_OUTPUT_OFFSET[j + 1], 0, 1),
                      local_values("", output_col + j*12, 1), 12) : j \in 0..11 }

\* add_constraints_forbenius (lines 282-366)
add_constraints_forbenius(row, input_col, output_col, pow) ==
    KindExclusivity(row, FP12_FORBENIUS_MAP_ROWS, FINAL_EXP_FORBENIUS_MAP_SELECTOR)
    \cup { Constraint("every", StartRowGate(row), local_values("", input_col, 1),
                      local_values("FP12_FORBENIUS_MAP_INPUT_OFFSET", 0, 1), 24*3*2),
           Constraint("every", StartRowGate(row),
                      local_values("FP12_FORBENIUS_MAP_POW_OFFSET", 0, 0),
                      from_canonical_usize(pow), 1) }
    \cup { Constraint("every", StartRowGate(row),
                      local_values(FORBENIUS_OUTPUT_OFFSET[j + 1], 0, 1),
                      local_values("", output_col + j*12, 1), 12) : j \in 0..11 }

\* a variant of add_constraints_mul that does not copy the y input
add_constraints_mul_no_y(row, x_col, y_col, res_col) ==
    KindExclusivity(row, FP12_MUL_ROWS, FINAL_EXP_MUL_SELECTOR)
    \cup { Constraint("every", StartRowGate(row), local_values("", x_col, 1),
                      local_values("FP12_MUL_X_INPUT_OFFSET", 0, 1), 24*3*2) }
    \cup { Constraint("every", StartRowGate(row),
                      local_values("", res_col + jk[2]*24*3 + jk[1]*12, 1),
                      local_values(MUL_OUTPUT_OFFSET[jk[2] + 1], 12*jk[1], 1), 12)
           : jk \in (0..5) \X (0..1) }

\* add_constraints_mul (lines 368-436); in the OP block the j-th reduced Fp of x_y
\* is the index range 12*j..12*j+11
add_constraints_mul(row, x_col, y_col, res_col) ==
    KindExclusivity(row, FP12_MUL_ROWS, FINAL_EXP_MUL_SELECTOR)
    \cup { Constraint("every", StartRowGate(row), local_values("", x_col, 1),
                      local_values("FP12_MUL_X_INPUT_OFFSET", 0, 1), 24*3*2),
           Constraint("every", StartRowGate(row), local_values("", y_col, 1),
                      local_values("FP12_MUL_Y_INPUT_OFFSET", 0, 1), 24*3*2) }
    \cup { Constraint("every", StartRowGate(row),
                      local_values("", res_col + jk[2]*24*3 + jk[1]*12, 1),
                      local_values(MUL_OUTPUT_OFFSET[jk[2] + 1], 12*jk[1], 1), 12)
           : jk \in (0..5) \X (0..1) }

\* a variant of add_constraints_cyc_exp that copies the output at the first row
add_constraints_cyc_exp_first_row(row, input_col, output_col) ==
    KindExclusivity(row, CYCLOTOMIC_EXP_ROWS, FINAL_EXP_CYCLOTOMIC_EXP_SELECTOR)
    \cup { Constraint("every", StartRowGate(row), local_values("", input_col, 1),
                      local_values("INPUT_OFFSET", 0, 1), 24*3*2),
           Constraint("every", StartRowGate(row), local_values("", output_col, 1),
                      local_values("Z_OFFSET", 0, 1), 24*3*2) }

\* add_constraints_cyc_exp (lines 438-491)
add_constraints_cyc_exp(row, input_col, output_col) ==
    KindExclusivity(row, CYCLOTOMIC_EXP_ROWS, FINAL_EXP_CYCLOTOMIC_EXP_SELECTOR)
    \cup { Constraint("every", StartRowGate(row), local_values("", input_col, 1),
                      local_values("INPUT_OFFSET", 0, 1), 24*3*2),
           Constraint("every",
                      StartRowGate(row + CYCLOTOMIC_EXP_ROWS - 1)
                          \o <<local_values("RES_ROW_SELECTOR_OFFSET", 0, 0)>>,
                      local_values("", output_col, 1),
                      local_values("Z_OFFSET", 0, 1), 24*3*2) }

\* a variant of add_constraints_conjugate that does not copy the output
add_constraints_conjugate_no_output(row, input_col, output_col) ==
    KindExclusivity(row, 1, FINAL_EXP_CONJUGATE_SELECTOR)
    \cup { Constraint("every", StartRowGate(row), local_values("", input_col, 1),
                      local_values("FP12_CONJUGATE_INPUT_OFFSET", 0, 1), 24*3*2) }

\* add_constraints_conjugate (lines 493-543)
add_constraints_conjugate(row, input_col, output_col) ==
    KindExclusivity(row, 1, FINAL_EXP_CONJUGATE_SELECTOR)
    \cup { Constraint("every", StartRowGate(row), local_values("", input_col, 1),
                      local_values("FP12_CONJUGATE_INPUT_OFFSET", 0, 1), 24*3*2),
           Constraint("every", StartRowGate(row), local_values("", output_col, 1),
                      local_values("FP12_CONJUGATE_OUTPUT_OFFSET", 0, 1), 24*3*2) }

\* a variant of add_constraints_cyc_sq whose output index is j*12 + k*12 + i
add_constraints_cyc_sq_stride12(row, input_col, output_col) ==
    KindExclusivity(row, CYCLOTOMIC_SQ_ROWS, FINAL_EXP_CYCLOTOMIC_SQ_SELECTOR)
    \cup { Constraint("every", StartRowGate(row), local_values("", input_col, 1),
                      local_values("CYCLOTOMIC_SQ_INPUT_OFFSET", 0, 1), 24*3*2) }
    \cup { Constraint("every", StartRowGate(row),
                      local_values(CYCLOTOMIC_SQ_OUTPUT_OFFSET[jk[1] + 1], 12*jk[2], 1),
                      local_values("", output_col + jk[1]*12 + jk[2]*12, 1), 12)
           : jk \in (0..5) \X (0..1) }

\* add_constraints_cyc_sq (lines 545-615); in the OP block the k-th reduced Fp behind
\* c_offset + FP2_ADDITION_TOTAL is the index range 12*k..12*k+11
add_constraints_cyc_sq(row, input_col, output_col) ==
    KindExclusivity(row, CYCLOTOMIC_SQ_ROWS, FINAL_EXP_CYCLOTOMIC_SQ_SELECTOR)
    \cup { Constraint("every", StartRowGate(row), local_values("", input_col, 1),
                      local_values("CYCLOTOMIC_SQ_INPUT_OFFSET", 0, 1), 24*3*2) }
    \cup { Constraint("every", StartRowGate(row),
                      local_values(CYCLOTOMIC_SQ_OUTPUT_OFFSET[jk[1] + 1], 12*jk[2], 1),
                      local_values("", output_col + jk[1]*24 + jk[2]*12, 1), 12)
           : jk \in (0..5) \X (0..1) }

(***************************************************************************)
(* The add_constraints_* calls of eval_packed_generic (lines 752-846), in  *)
(* order: call k + 1 is the one under the comment "// Tk".  c1, c2, c3 are *)
(* the column arguments in the order of the call.                          *)
(***************************************************************************)
INPUT == FINAL_EXP_INPUT_OFFSET

T(k) == FINAL_EXP_T_OFFSET(k)

EvalCall(fn, k, c1, c2, c3, pow) ==
    [fn |-> fn, row |-> T_ROW[k], c1 |-> c1, c2 |-> c2, c3 |-> c3, pow |-> pow]

EvalCalls ==
    << EvalCall("forbenius", 0, INPUT, T(0), 0, 6),
       EvalCall("mul", 1, T(1), INPUT, T(0), 0),
       EvalCall("forbenius", 2, T(1), T(2), 0, 2),
       EvalCall("mul", 3, T(2), T(1), T(3), 0),
       EvalCall("cyc_exp", 4, T(3), T(4), 0, 0),
       EvalCall("conjugate", 5, T(4), T(5), 0, 0),
       EvalCall("cyc_sq", 6, T(3), T(6), 0, 0),
       EvalCall("conjugate", 7, T(6), T(7), 0, 0),
       EvalCall("mul", 8, T(7), T(5), T(8), 0),
       EvalCall("cyc_exp", 9, T(8), T(9), 0, 0),
       EvalCall("conjugate", 10, T(9), T(10), 0, 0),
       EvalCall("cyc_exp", 11, T(10), T(11), 0, 0),
       EvalCall("conjugate", 12, T(11), T(12), 0, 0),
       EvalCall("cyc_exp", 13, T(12), T(13), 0, 0),
       EvalCall("conjugate", 14, T(13), T(14), 0, 0),
       EvalCall("cyc_sq", 15, T(5), T(15), 0, 0),
       EvalCall("mul", 16, T(14), T(15), T(16), 0),
       EvalCall("cyc_exp", 17, T(16), T(17), 0, 0),
       EvalCall("conjugate", 18, T(17), T(18), 0, 0),
       EvalCall("mul", 19, T(5), T(12), T(19), 0),
       EvalCall("forbenius", 20, T(19), T(20), 0, 2),
       EvalCall("mul", 21, T(10), T(3), T(21), 0),
       EvalCall("forbenius", 22, T(21), T(22), 0, 3),
       EvalCall("conjugate", 23, T(3), T(23), 0, 0),
       EvalCall("mul", 24, T(16), T(23), T(24), 0),
       EvalCall("forbenius", 25, T(24), T(25), 0, 1),
       EvalCall("conjugate", 26, T(8), T(26), 0, 0),
       EvalCall("mul", 27, T(18), T(26), T(27), 0),
       EvalCall("mul", 28, T(27), T(3), T(28), 0),
       EvalCall("mul", 29, T(20), T(22), T(29), 0),
       EvalCall("mul", 30, T(29), T(25), T(30), 0),
       EvalCall("mul", 31, T(30), T(28), T(31), 0) >>

\* the constraints one call emits
StepConstraints(c) ==
    CASE c.fn = "forbenius" -> add_constraints_forbenius(c.row, c.c1, c.c2, c.pow)
      [] c.fn = "mul"       -> add_constraints_mul(c.row, c.c1, c.c2, c.c3)
      [] c.fn = "cyc_exp"   -> add_constraints_cyc_exp(c.row, c.c1, c.c2)
      [] c.fn = "conjugate" -> add_constraints_conjugate(c.row, c.c1, c.c2)
      [] c.fn = "cyc_sq"    -> add_constraints_cyc_sq(c.row, c.c1, c.c2)

\* the constraints of the 32 calls, by call
GlueConstraints == [k \in 1..Len(EvalCalls) |-> StepConstraints(EvalCalls[k])]

\* a variant of the public-input constraints that binds T31 in the first row only
PublicInputConstraintsFirstRow ==
    { Constraint("every", <<>>, local_values("", FINAL_EXP_INPUT_OFFSET, 1),
                 public_inputs(PIS_INPUT_OFFSET), 24*3*2),
      Constraint("first", <<>>, local_values("", FINAL_EXP_T_OFFSET(31), 1),
                 public_inputs(PIS_OUTPUT_OFFSET), 24*3*2) }

\* lines 637-646: the public inputs, in every row
PublicInputConstraints ==
    { Constraint("every", <<>>, local_values("", FINAL_EXP_INPUT_OFFSET, 1),
                 public_inputs(PIS_INPUT_OFFSET), 24*3*2),
      Constraint("every", <<>>, local_values("", FINAL_EXP_T_OFFSET(31), 1),
                 public_inputs(PIS_OUTPUT_OFFSET), 24*3*2) }

\* a variant of the row-selector constraints without the ones of the last row
RowSelectorConstraintsNoLast(n) ==
    { Constraint("first", <<>>, local_values("", FINAL_EXP_ROW_SELECTORS, 1), OnesAt(0), n),
      Constraint("transition", <<>>, local_values("", FINAL_EXP_ROW_SELECTORS, 1),
                 next_values("", FINAL_EXP_ROW_SELECTORS + 1, 1), n - 1) }

\* lines 648-673: the row selectors, for self.num_rows = n
RowSelectorConstraints(n) ==
    { Constraint("first", <<>>, local_values("", FINAL_EXP_ROW_SELECTORS, 1), OnesAt(0), n),
      Constraint("transition", <<>>, local_values("", FINAL_EXP_ROW_SELECTORS, 1),
                 next_values("", FINAL_EXP_ROW_SELECTORS + 1, 1), n - 1),
      Constraint("last", <<>>, local_values("", FINAL_EXP_ROW_SELECTORS, 1), OnesAt(n - 1), n) }

\* a variant of the row-invariance constraints without the ones of INPUT
RowInvarianceConstraintsNoInput ==
    { Constraint("transition", <<>>, local_values("", FINAL_EXP_T_OFFSET(j), 1),
                 next_values("", FINAL_EXP_T_OFFSET(j), 1), 24*3*2) : j \in 0..31 }

\* lines 675-750: INPUT and T0..T31 keep their value from a row to the next
RowInvarianceConstraints ==
    { Constraint("transition", <<>>, local_values("", FINAL_EXP_INPUT_OFFSET, 1),
                 next_values("", FINAL_EXP_INPUT_OFFSET, 1), 24*3*2) }
    \cup { Constraint("transition", <<>>, local_values("", FINAL_EXP_T_OFFSET(j), 1),
                      next_values("", FINAL_EXP_T_OFFSET(j), 1), 24*3*2) : j \in 0..31 }

\* lines 848-852: the sub-STARKs' constraints at FINAL_EXP_OP_OFFSET, each under
\* its kind selector
SubStarkConstraints ==
    { Constraint("every", <<local_values("", FINAL_EXP_FORBENIUS_MAP_SELECTOR, 0)>>,
                 SubStark("forbenius"), ZEROS, 1),
      Constraint("every", <<local_values("", FINAL_EXP_MUL_SELECTOR, 0)>>,
                 SubStark("mul"), ZEROS, 1),
      Constraint("every", <<local_values("", FINAL_EXP_CYCLOTOMIC_EXP_SELECTOR, 0)>>,
                 SubStark("cyc_exp"), ZEROS, 1),
      Constraint("every", <<local_values("", FINAL_EXP_CONJUGATE_SELECTOR, 0)>>,
                 SubStark("conjugate"), ZEROS, 1),
      Constraint("every", <<local_values("", FINAL_EXP_CYCLOTOMIC_SQ_SELECTOR, 0)>>,
                 SubStark("cyc_sq"), ZEROS, 1) }

\* the constraints whose first factor is a selector cell, by emitting call;
\* group Len(EvalCalls) + 1 is the sub-STARKs'
GatedConstraints ==
    [k \in 1..(Len(EvalCalls) + 1) |->
        IF k <= Len(EvalCalls) THEN GlueConstraints[k] ELSE SubStarkConstraints]

\* constraint_degree (lines 867-869)
constraint_degree == 5

\* eval_packed_generic (lines 624-853), for self.num_rows = n
eval_packed_generic(n) ==
    PublicInputConstraints \cup RowSelectorConstraints(n) \cup RowInvarianceConstraints
    \cup UNION {GatedConstraints[k] : k \in DOMAIN GatedConstraints}

(***************************************************************************)
(* The value of a cell.  A limb of an Fp12 is the pair of the element and  *)
(* the index of the limb in get_u32_slice().concat(); two limbs are equal  *)
(* when they are the same limb of the same element.                        *)
(***************************************************************************)
Num(v) == [tag |-> "num", e |-> ExpZero, i |-> v]

Limb(e, i) == [tag |-> "limb", e |-> e, i |-> i]

\* a cell of the OP block no constraint of its row's sub-trace fixes
Opaque == [tag |-> "opaque", e |-> ExpZero, i |-> 0]

\* a register cell whose value was replaced by another one
Changed == [tag |-> "changed", e |-> ExpZero, i |-> 0]

CellEq(u, v) ==
    \/ u = v
    \/ /\ u.tag = "limb" /\ v.tag = "limb" /\ u.i = v.i
       /\ Canon(u.e) = Canon(v.e)

\* what the sub-builders write behind each offset of the OP block: the kind of the
\* sub-trace, the operand, and the index of its limb 0
OpColumns ==
    [n \in {"FP12_FORBENIUS_MAP_INPUT_OFFSET", "FP12_MUL_X_INPUT_OFFSET", "INPUT_OFFSET",
            "FP12_CONJUGATE_INPUT_OFFSET", "CYCLOTOMIC_SQ_INPUT_OFFSET"} |->
        [kind |-> CASE n = "FP12_FORBENIUS_MAP_INPUT_OFFSET" -> "forbenius"
                    [] n = "FP12_MUL_X_INPUT_OFFSET" -> "mul"
                    [] n = "INPUT_OFFSET" -> "cyc_exp"
                    [] n = "FP12_CONJUGATE_INPUT_OFFSET" -> "conjugate"
                    [] n = "CYCLOTOMIC_SQ_INPUT_OFFSET" -> "cyc_sq",
         field |-> "x", limb |-> 0]]
    @@ [n \in {"FP12_MUL_Y_INPUT_OFFSET"} |-> [kind |-> "mul", field |-> "y", limb |-> 0]]
    @@ [n \in {"FP12_FORBENIUS_MAP_POW_OFFSET"} |->
            [kind |-> "forbenius", field |-> "pow", limb |-> 0]]
    @@ [n \in {"RES_ROW_SELECTOR_OFFSET"} |->
            [kind |-> "cyc_exp", field |-> "res_row", limb |-> 0]]
    @@ [n \in {"Z_OFFSET"} |-> [kind |-> "cyc_exp", field |-> "z_last", limb |-> 0]]
    @@ [n \in {"FP12_CONJUGATE_OUTPUT_OFFSET"} |->
            [kind |-> "conjugate", field |-> "z", limb |-> 0]]
    @@ [n \in {FORBENIUS_OUTPUT_OFFSET[j] : j \in 1..12} |->
            [kind |-> "forbenius", field |-> "z",
             limb |-> 12 * ((CHOOSE j \in 1..12 : FORBENIUS_OUTPUT_OFFSET[j] = n) - 1)]]
    @@ [n \in {MUL_OUTPUT_OFFSET[k] : k \in 1..2} |->
            [kind |-> "mul", field |-> "z",
             limb |-> 24*3 * ((CHOOSE k \in 1..2 : MUL_OUTPUT_OFFSET[k] = n) - 1)]]
    @@ [n \in {CYCLOTOMIC_SQ_OUTPUT_OFFSET[j] : j \in 1..6} |->
            [kind |-> "cyc_sq", field |-> "z",
             limb |-> 24 * ((CHOOSE j \in 1..6 : CYCLOTOMIC_SQ_OUTPUT_OFFSET[j] = n) - 1)]]

\* the cell op + idx of the OP block in row r
OpCell(tr, r, op, idx) ==
    IF OpIn(tr, r) = 0 THEN Num(0)
    ELSE LET s == sub[OpIn(tr, r)]
             c == OpColumns[op]
         IN  IF s.kind # c.kind THEN Opaque
             ELSE CASE c.field = "x" -> Limb(s.x, c.limb + idx)
                    [] c.field = "y" -> Limb(s.y, c.limb + idx)
                    [] c.field = "z" -> Limb(s.z, c.limb + idx)
                    [] c.field = "z_last" ->
                           IF r = s.end_row THEN Limb(s.z, c.limb + idx) ELSE Opaque
                    [] c.field = "pow" -> Num(s.pow)
                    [] c.field = "res_row" -> Num(IF r = s.end_row THEN 1 ELSE 0)

\* the Fp12 a register block reference stands for
RefValue(ref) == Local(ref - 2)

\* the limb of column col inside its register block
RegLimb(col) == (col - FINAL_EXP_INPUT_OFFSET) % (12*12)

\* the cell of column col in row r, col below FINAL_EXP_OP_OFFSET
MainCell(tr, r, col) ==
    IF col < FINAL_EXP_INPUT_OFFSET THEN Num(IF col \in OnesIn(tr, r) THEN 1 ELSE 0)
    ELSE IF <<r, col>> \in tr.changed THEN Changed
    ELSE IF RegIn(tr, RegBlock(col), r) = 0 THEN Num(0)
    ELSE Limb(RefValue(RegIn(tr, RegBlock(col), r)), RegLimb(col))

Cell(tr, r, op, col) == IF op = "" THEN MainCell(tr, r, col) ELSE OpCell(tr, r, op, col)

\* the public inputs of the proof of the trace: the limbs of x, then of t31
PublicInput(j) ==
    IF j < PIS_OUTPUT_OFFSET THEN Limb(x, j - PIS_INPUT_OFFSET)
    ELSE Limb(Local(31), j - PIS_OUTPUT_OFFSET)

\* the sub-STARK's constraints hold on the rows its sub-builder wrote
SubStarkValue(tr, r, kind) ==
    Num(IF OpIn(tr, r) # 0 /\ sub[OpIn(tr, r)].kind = kind THEN 0 ELSE 1)

\* the value of a term for the instance i, in the row r of a trace
TermValue(tr, term, i, r) ==
    CASE term.src = "local" -> Cell(tr, r, term.op, term.base + term.step * i)
      [] term.src = "next" ->
             Cell(tr, (r + 1) % TraceLen(tr), term.op, term.base + term.step * i)
      [] term.src = "pis" -> PublicInput(term.base + i)
      [] term.src = "const" -> Num(term.base)
      [] term.src = "unit" -> Num(IF i = term.base THEN 1 ELSE 0)
      [] term.src = "substark" -> SubStarkValue(tr, r, term.op)

\* the rows a constraint is checked on, in a trace of n rows
Applies(when, r, n) ==
    CASE when = "every" -> TRUE
      [] when = "first" -> r = 0
      [] when = "last" -> r = n - 1
      [] when = "transition" -> r < n - 1

\* the instance i of the family f evaluates to zero in row r
InstanceHolds(tr, f, i, r) ==
    \/ \E g \in 1..Len(f.gate) : TermValue(tr, f.gate[g], i, r) = Num(0)
    \/ CellEq(TermValue(tr, f.a, i, r), TermValue(tr, f.b, i, r))

\* the family f evaluates to zero in row r, when it is checked there
FamilyHolds(tr, f, r) ==
    Applies(f.when, r, TraceLen(tr)) => \A i \in 0..(f.n - 1) : InstanceHolds(tr, f, i, r)

(***************************************************************************)
(* Checking a whole trace.  A product with a selector cell as its first    *)
(* factor is zero in every row where that cell is zero, so the gated       *)
(* families are evaluated in the rows and for the instances whose first    *)
(* factor is one; a family over selector cells compares the sets of the    *)
(* instances whose cell is one; a family over register blocks is evaluated *)
(* on the first and the last row, on the rows where a write to a register  *)
(* block begins or ends and the rows next to them, and on the rows with a  *)
(* changed cell: every other row and the row after it hold the blocks of   *)
(* the row before and of the row after that one.                           *)
(***************************************************************************)
Rows(tr) == 0..(TraceLen(tr) - 1)

\* the columns the first factor of the families of a group ranges over
GateColumns(k) ==
    UNION { {f.gate[1].base + f.gate[1].step * i : i \in 0..(f.n - 1)}
            : f \in GatedConstraints[k] }

GateColumnsOf == [k \in DOMAIN GatedConstraints |-> GateColumns(k)]

\* the groups with a family whose first factor is the column g
GateIndex ==
    [g \in 0..(FINAL_EXP_INPUT_OFFSET - 1) |->
        {k \in DOMAIN GatedConstraints : g \in GateColumnsOf[k]}]

\* the instances of f whose first factor is the cell of column g
OpenInstances(f, g) ==
    LET gt == f.gate[1]
    IN  IF gt.step = 0 THEN (IF gt.base = g THEN 0..(f.n - 1) ELSE {})
        ELSE IF g >= gt.base /\ (g - gt.base) % gt.step = 0
                /\ (g - gt.base) \div gt.step < f.n
             THEN {(g - gt.base) \div gt.step}
             ELSE {}

\* the gated families evaluate to zero in row r
GatedHoldAt(tr, r) ==
    \A g \in OnesIn(tr, r) : \A k \in GateIndex[g] : \A f \in GatedConstraints[k] :
        \A i \in OpenInstances(f, g) :
            Applies(f.when, r, TraceLen(tr)) => InstanceHolds(tr, f, i, r)

\* the rows a constraint is checked on
AppliedRows(when, n) ==
    CASE when = "every" -> 0..(n - 1)
      [] when = "first" -> {0}
      [] when = "last" -> {n - 1}
      [] when = "transition" -> 0..(n - 2)

\* the instances of f for which the selector cell of the term is one in row r
OnesOf(tr, term, n, r) ==
    CASE term.src = "local" ->
             {c - term.base : c \in {d \in OnesIn(tr, r) : d >= term.base /\ d < term.base + n}}
      [] term.src = "next" ->
             {c - term.base : c \in {d \in OnesIn(tr, (r + 1) % TraceLen(tr)) :
                                        d >= term.base /\ d < term.base + n}}
      [] term.src = "unit" -> {term.base} \cap 0..(n - 1)
      [] term.src = "const" -> IF term.base = 0 THEN {} ELSE 0..(n - 1)

\* a family over selector cells evaluates to zero in every row it is checked on
SelectorFamilyHolds(tr, f) ==
    \A r \in AppliedRows(f.when, TraceLen(tr)) :
        OnesOf(tr, f.a, f.n, r) = OnesOf(tr, f.b, f.n, r)

\* the rows where a write of ws begins or ends, and the rows next to them
WriteEdges(ws) == UNION {{ws[i].lo - 1, ws[i].lo, ws[i].hi, ws[i].hi + 1} : i \in DOMAIN ws}

ChangedRows(tr) == {c[1] : c \in tr.changed} \cup {c[1] - 1 : c \in tr.changed}

Representatives(tr, f) ==
    ({0, TraceLen(tr) - 1} \cup UNION {WriteEdges(tr.reg[b]) : b \in DOMAIN tr.reg}
        \cup ChangedRows(tr))
    \cap AppliedRows(f.when, TraceLen(tr))

\* a family over register blocks evaluates to zero in every row it is checked on
RegisterFamilyHolds(tr, f) == \A r \in Representatives(tr, f) : FamilyHolds(tr, f, r)

\* every constraint of eval_packed_generic evaluates to zero on the trace
AllConstraintsHold(tr) ==
    /\ \A f \in RowSelectorConstraints(num_rows) : SelectorFamilyHolds(tr, f)
    /\ \A f \in PublicInputConstraints \cup RowInvarianceConstraints :
           RegisterFamilyHolds(tr, f)
    /\ \A r \in Rows(tr) : GatedHoldAt(tr, r)

\* generate_trace returns the trace (line 267)
Return ==
    /\ pc = "filling"
    /\ call = NumCalls
    /\ pc' = "done"
    /\ UNCHANGED <<num_rows, x, t, call, trace, sub>>

(***************************************************************************)
(* A prover that changes one cell of the trace generate_trace returned:    *)
(* a limb of T31, the cell INPUT[0], or the MUL selector in a row of T0's  *)
(* range.                                                                  *)
(***************************************************************************)
TamperRows == {0, T_ROW[4] + 7, TOTAL_ROW - 1, num_rows - 1}

TamperOutput ==
    /\ pc = "done"
    /\ \E r \in TamperRows, i \in {0, 24*3*2 - 1} :
           trace' = [trace EXCEPT !.changed = {<<r, FINAL_EXP_T_OFFSET(31) + i>>}]
    /\ pc' = "tampered"
    /\ UNCHANGED <<num_rows, x, t, call, sub>>

TamperInput ==
    /\ pc = "done"
    /\ \E r \in TamperRows :
           trace' = [trace EXCEPT !.changed = {<<r, FINAL_EXP_INPUT_OFFSET>>}]
    /\ pc' = "tampered"
    /\ UNCHANGED <<num_rows, x, t, call, sub>>

TamperSelector ==
    /\ pc = "done"
    /\ \E r \in T_ROW[0]..(T_ROW[1] - 1) :
           trace' = SetOne(trace, r, r, FINAL_EXP_MUL_SELECTOR)
    /\ pc' = "tampered"
    /\ UNCHANGED <<num_rows, x, t, call, sub>>

Next ==
    \/ New
    \/ GenerateTraceBegin
    \/ FillTraceForbenius
    \/ FillTraceMul
    \/ FillTraceDiv
    \/ FillTraceCycExp
    \/ FillTraceConjugate
    \/ FillTraceCycSq
    \/ Return
    \/ TamperOutput
    \/ TamperInput
    \/ TamperSelector

Spec == Init /\ [][Next]_vars

(***************************************************************************)
(* Properties.                                                             *)
(***************************************************************************)
\* the exponent k of the input x = g^k
InputExponent == CHOOSE k \in 0..MaxInputExp : ExpConst(k) = x

\* the register block at column col holds the local tk in every row
RegisterHoldsLocal(col, k) ==
    /\ \A r \in Rows(trace) : RegIn(trace, RegBlock(col), r) = RefOfLocal(k)
    /\ \A c \in trace.changed : RegBlock(c[2]) # RegBlock(col)

\* the selector column of a kind of call
KindSelectorColumn(fn) ==
    CASE fn = "forbenius" -> FINAL_EXP_FORBENIUS_MAP_SELECTOR
      [] fn = "cyc_exp" -> FINAL_EXP_CYCLOTOMIC_EXP_SELECTOR
      [] fn \in {"mul", "div"} -> FINAL_EXP_MUL_SELECTOR
      [] fn = "cyc_sq" -> FINAL_EXP_CYCLOTOMIC_SQ_SELECTOR
      [] fn = "conjugate" -> FINAL_EXP_CONJUGATE_SELECTOR

\* the step (1..32) whose range [T(k-1)_ROW, Tk_ROW) holds the row r < TOTAL_ROW
StepOfRow ==
    [r \in 0..(TOTAL_ROW - 1) |-> CHOOSE k \in 1..NumCalls : T_ROW[k - 1] <= r /\ r < T_ROW[k]]

\* the kind selectors that are one in row r
KindSelectorsAt(tr, r) == OnesIn(tr, r) \cap {KindSelectors[s] : s \in 1..5}

\* the columns of the ROW_SELECTORS block
RowSelectorColumns ==
    FINAL_EXP_ROW_SELECTORS..(FINAL_EXP_FORBENIUS_MAP_SELECTOR - 1)

\* C1 (as the specification states it): in the trace generate_trace(x) returns, T31
\* holds x^((p^12-1)/r) in every row.
C1_T31IsFinalExp ==
    pc = "done" =>
        /\ RegisterHoldsLocal(FINAL_EXP_T_OFFSET(31), 31)
        /\ Canon(Local(31)) = TimesE(InputExponent, FinalExpExponent)

\* C1 (amended): r divides p^12-1 and, in the trace generate_trace(x) returns, T31
\* holds x^(3*(p^12-1)/r), the cube of x^((p^12-1)/r), in every row; the operands
\* of the cyclotomic steps are in the cyclotomic subgroup.
C1_T31IsCubeOfFinalExp ==
    /\ FinalExpDivision.r = ZeroL(RLimbs)
    /\ pc = "done" =>
           /\ RegisterHoldsLocal(FINAL_EXP_T_OFFSET(31), 31)
           /\ Canon(Local(31)) = TimesE(3 * InputExponent, FinalExpExponent)
           /\ \A k \in 1..NumCalls :
                  GenerateTraceCalls[k].fn \in {"cyc_exp", "cyc_sq"} =>
                      InCyclotomicSubgroup(Local(GenerateTraceCalls[k].a))

C1_Witness ==
    /\ pc = "done" /\ num_rows >= TOTAL_ROW /\ InputExponent # 0
    /\ Canon(Local(31)) # Canon(ExpZero)

\* the call of eval_packed_generic that matches a call of generate_trace
RegisterOf(l) == IF l = -1 THEN FINAL_EXP_INPUT_OFFSET ELSE FINAL_EXP_T_OFFSET(l)

MatchingEvalCall(c) ==
    [fn |-> IF c.fn = "div" THEN "mul" ELSE c.fn,
     row |-> c.start_row,
     c1 |-> IF c.fn = "div" THEN c.output_col ELSE RegisterOf(c.a),
     c2 |-> IF c.fn \in {"mul", "div"} THEN RegisterOf(c.b) ELSE c.output_col,
     c3 |-> CASE c.fn = "mul" -> c.output_col
              [] c.fn = "div" -> RegisterOf(c.a)
              [] OTHER -> 0,
     pow |-> c.pow]

\* C2: every constraint eval_packed_generic emits evaluates to zero on every row of
\* the trace generate_trace returns, and the 32 calls of the emitter have the kind,
\* start row, registers and power of the builder's calls.
C2_TraceSatisfiesConstraints ==
    /\ \A k \in 1..NumCalls : EvalCalls[k] = MatchingEvalCall(GenerateTraceCalls[k])
    /\ (pc = "done" /\ num_rows >= TOTAL_ROW) => AllConstraintsHold(trace)

C2_Witness ==
    /\ pc = "done" /\ num_rows > FINAL_EXP_FORBENIUS_MAP_SELECTOR
    /\ ~SelectorFamilyHolds(trace, Constraint("first", <<>>,
            local_values("", FINAL_EXP_ROW_SELECTORS, 1), OnesAt(0), num_rows))

\* the families of eval_packed_generic that read a public input
PublicInputFamilies == {f \in eval_packed_generic(num_rows) : f.b.src = "pis"}

\* C3: INPUT[i] = PIS_INPUT[i] and T31[i] = PIS_OUTPUT[i] are emitted for the 144
\* limbs as constraints of every row with no gate, and a trace with one limb of T31
\* changed in one row violates the constraint of that limb in that row.
C3_PublicInputsBoundInEveryRow ==
    /\ {<<f.a, f.b.base>> : f \in PublicInputFamilies}
           = { <<local_values("", FINAL_EXP_INPUT_OFFSET, 1), PIS_INPUT_OFFSET>>,
               <<local_values("", FINAL_EXP_T_OFFSET(31), 1), PIS_OUTPUT_OFFSET>> }
    /\ \A f \in PublicInputFamilies : f.when = "every" /\ f.gate = <<>> /\ f.n = 144
    /\ pc = "tampered" =>
           \A c \in trace.changed :
               RegBlock(c[2]) = RegBlock(FINAL_EXP_T_OFFSET(31)) =>
                   \E f \in PublicInputFamilies :
                       /\ f.b.base = PIS_OUTPUT_OFFSET
                       /\ ~InstanceHolds(trace, f, c[2] - f.a.base, c[1])

C3_Witness ==
    /\ pc = "tampered"
    /\ <<num_rows - 1, FINAL_EXP_T_OFFSET(31) + 143>> \in trace.changed
    /\ num_rows > TOTAL_ROW

\* C4: in the trace generate_trace returns, INPUT holds x and every Tk holds tk in
\* every row 0..H-1.
C4_RegistersSameInEveryRow ==
    pc = "done" =>
        \A b \in 0..NumCalls :
            RegisterHoldsLocal(FINAL_EXP_INPUT_OFFSET + b * (12*12), b - 1)

C4_Witness == pc = "done" /\ num_rows > TOTAL_ROW /\ Len(t) = NumCalls

\* C5: in the trace generate_trace returns, the kind selectors that are one in a row
\* r < TOTAL_ROW are exactly the one of the step whose range holds r, and none is
\* one in a row r >= TOTAL_ROW.
C5_OneKindSelectorPerRow ==
    pc = "done" =>
        \A r \in Rows(trace) :
            KindSelectorsAt(trace, r) =
                IF r < TOTAL_ROW
                THEN {KindSelectorColumn(GenerateTraceCalls[StepOfRow[r]].fn)}
                ELSE {}

C5_Witness ==
    /\ pc = "done" /\ num_rows > FINAL_EXP_FORBENIUS_MAP_SELECTOR
    /\ FINAL_EXP_FORBENIUS_MAP_SELECTOR \in OnesIn(trace, FINAL_EXP_FORBENIUS_MAP_SELECTOR)

\* C6: in the trace generate_trace returns, for every height, the ROW_SELECTORS block
\* of row r holds a one at index r and nowhere else.
C6_RowSelectorsIdentity ==
    pc = "done" =>
        \A r \in Rows(trace) :
            OnesIn(trace, r) \cap RowSelectorColumns = {FINAL_EXP_ROW_SELECTORS + r}

C6_Witness ==
    /\ pc = "done" /\ num_rows > FINAL_EXP_FORBENIUS_MAP_SELECTOR
    /\ OnesIn(trace, num_rows - 1) \cap RowSelectorColumns = {}

\* the rows the schedule table gives a step of kind fn
ScheduleRows(fn) ==
    CASE fn \in {"forbenius", "mul", "div", "cyc_sq"} -> 12
      [] fn = "cyc_exp" -> 70*12 + 1
      [] fn = "conjugate" -> 1

\* the range [T(k-1)_ROW, T(k-1)_ROW + rows(kind)) of the step k (1..32)
StepRange(k) ==
    T_ROW[k - 1]..(T_ROW[k - 1] + ScheduleRows(GenerateTraceCalls[k].fn) - 1)

\* the rows whose row selector gates a constraint of the call k of the emitter
EmitterRange(k) == {g - FINAL_EXP_ROW_SELECTORS : g \in GateColumnsOf[k]}

\* the ranges of the steps partition 0..TOTAL_ROW-1 in ascending order, and are
\* the ranges of the builder's and of the emitter's calls
StepRangesPartition ==
    /\ T_ROW[0] = 0
    /\ TOTAL_ROW = 4441
    /\ NumCalls = 32 /\ Len(EvalCalls) = 32
    /\ \A k \in 1..NumCalls :
           LET c == GenerateTraceCalls[k]
           IN  /\ T_ROW[k] = T_ROW[k - 1] + ScheduleRows(c.fn)
               /\ \A j \in 1..(k - 1) : StepRange(j) \cap StepRange(k) = {}
               /\ EvalCalls[k].fn = (IF c.fn = "div" THEN "mul" ELSE c.fn)
               /\ c.start_row..c.end_row = StepRange(k)
               /\ EvalCalls[k].row = c.start_row
               /\ EmitterRange(k) = StepRange(k)
    /\ UNION {StepRange(k) : k \in 1..NumCalls} = 0..(TOTAL_ROW - 1)

\* C7: the 32 step ranges are pairwise disjoint, contiguous from row 0 in ascending
\* k, have the lengths and kinds of the schedule table (12, 841, 1), and cover
\* 0..TOTAL_ROW-1 with TOTAL_ROW = 4441; the range every call of the builder fills
\* (selector and OP block) is the range the emitter's call gates its constraints on.
C7_StepRangesPartitionRows ==
    /\ StepRangesPartition
    /\ pc \in {"filling", "done", "panicked", "tampered"} =>
           /\ Len(trace.op) = call /\ Len(sub) = call
           /\ \A i \in 1..call :
                  /\ trace.op[i] = [lo |-> T_ROW[i - 1], hi |-> T_ROW[i] - 1, s |-> i]
                  /\ sub[i].start_row..sub[i].end_row = EmitterRange(i)
                  /\ [lo |-> T_ROW[i - 1], hi |-> T_ROW[i] - 1, diag |-> FALSE,
                      col |-> KindSelectorColumn(GenerateTraceCalls[i].fn)] \in trace.ones

C7_Witness ==
    /\ pc = "done" /\ num_rows = TOTAL_ROW /\ call = NumCalls
    /\ OpIn(trace, TOTAL_ROW - 1) = NumCalls
    /\ OpIn(trace, T_ROW[4]) = 5 /\ OpIn(trace, T_ROW[5] - 1) = 5

ExclusivityOf ==
    [k \in 1..Len(EvalCalls) |->
        {f \in GlueConstraints[k] :
            /\ f.a.src = "local" /\ f.a.op = "" /\ f.a.step = 0
            /\ f.a.base \in {KindSelectors[s] : s \in 1..5}
            /\ f.b.src = "const"}]

\* the kind exclusivity constraints evaluate to zero in row r
ExclusivityHoldsAt(tr, r) ==
    \A g \in OnesIn(tr, r) : \A k \in GateIndex[g] \cap DOMAIN ExclusivityOf :
        \A f \in ExclusivityOf[k] : \A i \in OpenInstances(f, g) :
            InstanceHolds(tr, f, i, r)

\* the ROW_SELECTORS block of every row r holds a one at index r and nowhere else
RowSelectorsIdentity(tr) ==
    \A r \in Rows(tr) : OnesIn(tr, r) \cap RowSelectorColumns = {FINAL_EXP_ROW_SELECTORS + r}

\* C9: every call of the emitter emits, for every row r of its range, five
\* constraints multiplied by ROW_SELECTORS[r]: the selector of the call's kind equals
\* one and the four others equal zero.  In a trace with the identity ROW_SELECTORS
\* that satisfies them, the kind selectors that are one in a row of a step's range
\* are exactly the one of the step's kind; a trace with MUL_SEL = 1 in a row of
\* 0..11 violates the MUL_SEL constraint of T0's call in that row.
C9_KindExclusivity ==
    /\ \A k \in 1..Len(EvalCalls) :
           /\ {<<f.a.base, f.b.base>> : f \in ExclusivityOf[k]}
                  = {<<KindSelectors[s],
                       IF KindSelectors[s] = KindSelectorColumn(EvalCalls[k].fn)
                       THEN 1 ELSE 0>> : s \in 1..5}
           /\ \A f \in ExclusivityOf[k] :
                  /\ f.when = "every"
                  /\ f.gate = <<local_values("", FINAL_EXP_ROW_SELECTORS + T_ROW[k - 1], 1)>>
                  /\ f.n = T_ROW[k] - T_ROW[k - 1]
    /\ pc \in {"done", "tampered"} =>
           \/ \A r \in 0..(TOTAL_ROW - 1) :
                  KindSelectorsAt(trace, r) =
                      {KindSelectorColumn(GenerateTraceCalls[StepOfRow[r]].fn)}
           \/ ~RowSelectorsIdentity(trace)
           \/ \E r \in Rows(trace) : ~ExclusivityHoldsAt(trace, r)
    /\ pc = "tampered" =>
           \A r \in T_ROW[0]..(T_ROW[1] - 1) :
               FINAL_EXP_MUL_SELECTOR \in OnesIn(trace, r) =>
                   \E f \in ExclusivityOf[1] :
                       /\ f.a.base = FINAL_EXP_MUL_SELECTOR
                       /\ ~InstanceHolds(trace, f, r - T_ROW[0], r)

C9_Witness ==
    /\ pc = "tampered" /\ num_rows = TOTAL_ROW
    /\ FINAL_EXP_MUL_SELECTOR \in OnesIn(trace, T_ROW[1] - 1)
    /\ RowSelectorsIdentity(trace)

\* the transition constraints of eval_packed_generic over register cells
RegisterTransitionFamilies ==
    {f \in eval_packed_generic(num_rows) :
        /\ f.when = "transition" /\ f.gate = <<>>
        /\ f.a.src = "local" /\ f.a.op = "" /\ f.a.base >= FINAL_EXP_INPUT_OFFSET
        /\ f.b = next_values("", f.a.base, 1)}

\* the rows r < H-1 with a register cell that differs from the one of row r+1: a
\* cell differs only where one of the two is changed, or where a write to its block
\* begins at r+1 or ends at r
RowsThatDiffer(tr) ==
    LET rows == 0..(TraceLen(tr) - 2)
    IN  (ChangedRows(tr) \cap rows)
        \cup {r \in UNION {WriteEdges(tr.reg[b]) : b \in DOMAIN tr.reg} \cap rows :
                \E b \in DOMAIN tr.reg : RegIn(tr, b, r) # RegIn(tr, b, r + 1)}

\* C10: for INPUT and for each of T0..T31, eval_packed_generic emits the 144
\* transition constraints cell[r] = cell[r+1].  A trace that satisfies them holds
\* the same register cells in every two consecutive rows; a trace in which one cell
\* (INPUT[0] among them) is replaced in one row violates the constraint of that cell
\* in every transition that reads the row.
C10_RowInvarianceEnforced ==
    /\ {<<f.a.base, f.n>> : f \in RegisterTransitionFamilies}
           = {<<FINAL_EXP_INPUT_OFFSET + b * (12*12), 24*3*2>> : b \in 0..NumCalls}
    /\ pc \in {"done", "tampered"} =>
           \/ \E f \in RegisterTransitionFamilies : ~RegisterFamilyHolds(trace, f)
           \/ RowsThatDiffer(trace) = {}
    /\ pc = "tampered" =>
           \A c \in trace.changed :
               \A r \in {c[1] - 1, c[1]} \cap 0..(TraceLen(trace) - 2) :
                   \E f \in RegisterTransitionFamilies :
                       /\ RegBlock(f.a.base) = RegBlock(c[2])
                       /\ ~InstanceHolds(trace, f, c[2] - f.a.base, r)

C10_Witness ==
    /\ pc = "tampered"
    /\ <<T_ROW[4] + 7, FINAL_EXP_INPUT_OFFSET>> \in trace.changed
    /\ \E f \in RegisterTransitionFamilies :
           /\ f.a.base = FINAL_EXP_INPUT_OFFSET
           /\ ~InstanceHolds(trace, f, 0, T_ROW[4] + 6)
           /\ ~InstanceHolds(trace, f, 0, T_ROW[4] + 7)

(***************************************************************************)
(* A prover that chooses the cells of the first num_rows columns of the    *)
(* ROW_SELECTORS block freely (zero or one), for a STARK of a small        *)
(* height: every such assignment is reached by setting cells to one.       *)
(***************************************************************************)
SelectorInit ==
    /\ pc = "assigning"
    /\ num_rows \in 1..MaxSelRows
    /\ x = ExpZero
    /\ t = <<>>
    /\ call = 0
    /\ trace = [NoTrace EXCEPT !.len = num_rows, !.reg = [b \in 0..NumCalls |-> <<>>]]
    /\ sub = <<>>

AssignSelector ==
    /\ pc = "assigning"
    /\ \E r \in 0..(num_rows - 1), i \in 0..(num_rows - 1) :
           /\ FINAL_EXP_ROW_SELECTORS + i \notin OnesIn(trace, r)
           /\ trace' = SetOne(trace, r, r, FINAL_EXP_ROW_SELECTORS + i)
    /\ UNCHANGED <<pc, num_rows, x, t, call, sub>>

SelectorSpec == SelectorInit /\ [][AssignSelector]_vars

\* the three families of lines 648-673 evaluate to zero on every row of the trace
RowSelectorFamiliesHold ==
    \A f \in RowSelectorConstraints(num_rows) : SelectorFamilyHolds(trace, f)

\* ROW_SELECTORS[i] in row r is one iff i = r, for r, i < num_rows
IdentityIndicator ==
    \A r \in 0..(num_rows - 1) :
        {i \in 0..(num_rows - 1) : FINAL_EXP_ROW_SELECTORS + i \in OnesIn(trace, r)} = {r}

\* C11: an assignment of the cells ROW_SELECTORS[0..H-1] of H rows that satisfies
\* the first-row, last-row and transition families of eval_packed_generic is the
\* identity indicator.
C11_RowSelectorFamiliesForceIdentity ==
    /\ {<<f.when, f.a, f.b, f.n>> : f \in RowSelectorConstraints(num_rows)}
           = { <<"first", local_values("", FINAL_EXP_ROW_SELECTORS, 1), OnesAt(0), num_rows>>,
               <<"last", local_values("", FINAL_EXP_ROW_SELECTORS, 1),
                 OnesAt(num_rows - 1), num_rows>>,
               <<"transition", local_values("", FINAL_EXP_ROW_SELECTORS, 1),
                 next_values("", FINAL_EXP_ROW_SELECTORS + 1, 1), num_rows - 1>> }
    /\ (pc = "assigning" /\ RowSelectorFamiliesHold) => IdentityIndicator

C11_Witness ==
    /\ pc = "assigning" /\ num_rows = MaxSelRows
    /\ RowSelectorFamiliesHold
    /\ IdentityIndicator

\* the Fp12 the register at column col holds in row r of the trace
RegisterValue(col, r) == RefValue(RegIn(trace, RegBlock(col), r))

\* the families of the call k of the emitter that copy a register into the OP
\* block, or the OP block into a register, under the row selector of row
CopyFamilies(k, row) ==
    {f \in GlueConstraints[k] \ ExclusivityOf[k] : f.gate = StartRowGate(row)}

\* C12: the step T1 = T0 / INPUT is witnessed as a multiplication.  The builder sets
\* MUL_SEL in the rows T1_ROW..T2_ROW-1, writes t0 / x into T1 and fills the
\* multiplication sub-trace with (t1, x); the emitter binds the multiplication's x
\* input to T1, its y input to INPUT and its result to T0; a trace on which these
\* constraints and the ones of the multiplication hold in the row T1_ROW has
\* T1 * INPUT = T0.
C12_DivisionWitnessedAsMul ==
    /\ GenerateTraceCalls[2] = GenCall("div", 0, -1, 0, 1)
    /\ EvalCalls[2] = EvalCall("mul", 1, T(1), INPUT, T(0), 0)
    /\ {<<f.a, f.b>> : f \in {g \in CopyFamilies(2, T_ROW[1]) : g.n = 24*3*2}}
           = { <<local_values("", T(1), 1), local_values("FP12_MUL_X_INPUT_OFFSET", 0, 1)>>,
               <<local_values("", INPUT, 1), local_values("FP12_MUL_Y_INPUT_OFFSET", 0, 1)>> }
    /\ UNION { {f.a.base + i : i \in 0..(f.n - 1)} :
                 f \in {g \in CopyFamilies(2, T_ROW[1]) : g.n = 12} }
           = T(0)..(T(0) + 24*3*2 - 1)
    /\ \A f \in {g \in CopyFamilies(2, T_ROW[1]) : g.n = 12} :
           f.b.op \in {MUL_OUTPUT_OFFSET[k] : k \in 1..2}
    /\ (pc \in {"filling", "done", "tampered"} /\ call >= 2) =>
           /\ [lo |-> T_ROW[1], hi |-> T_ROW[2] - 1, col |-> FINAL_EXP_MUL_SELECTOR,
               diag |-> FALSE] \in trace.ones
           /\ Canon(Local(1)) = Canon(Fp12Div(Local(0), x))
           /\ \A r \in Rows(trace) : RegIn(trace, RegBlock(T(1)), r) = RefOfLocal(1)
           /\ sub[2] = fill_trace_fp12_multiplication(Local(1), x, T_ROW[1], T_ROW[2] - 1)
           /\ \A r \in T_ROW[1]..(T_ROW[2] - 1) : OpIn(trace, r) = 2
    /\ pc \in {"done", "tampered"} =>
           \/ \E f \in CopyFamilies(2, T_ROW[1]) \cup SubStarkConstraints :
                  ~FamilyHolds(trace, f, T_ROW[1])
           \/ Canon(Fp12Mul(RegisterValue(T(1), T_ROW[1]), RegisterValue(INPUT, T_ROW[1])))
                  = Canon(RegisterValue(T(0), T_ROW[1]))

C12_Witness ==
    /\ pc = "done" /\ num_rows = TOTAL_ROW /\ InputExponent # 0
    /\ \A f \in CopyFamilies(2, T_ROW[1]) \cup SubStarkConstraints :
           FamilyHolds(trace, f, T_ROW[1])
    /\ Canon(Local(1)) # Canon(Local(0))

\* the offsets of the inputs of a sub-STARK in the OP block, by kind of call
InputOffsets(fn) ==
    CASE fn = "forbenius" -> <<"FP12_FORBENIUS_MAP_INPUT_OFFSET">>
      [] fn = "mul" -> <<"FP12_MUL_X_INPUT_OFFSET", "FP12_MUL_Y_INPUT_OFFSET">>
      [] fn = "cyc_exp" -> <<"INPUT_OFFSET">>
      [] fn = "conjugate" -> <<"FP12_CONJUGATE_INPUT_OFFSET">>
      [] fn = "cyc_sq" -> <<"CYCLOTOMIC_SQ_INPUT_OFFSET">>

AllInputOffsets ==
    UNION {{InputOffsets(fn)[j] : j \in DOMAIN InputOffsets(fn)} :
             fn \in {"forbenius", "mul", "cyc_exp", "conjugate", "cyc_sq"}}

\* the families of the call k of the emitter that read an input of a sub-STARK
InputCopyFamilies(k) == {f \in GlueConstraints[k] : f.b.op \in AllInputOffsets}

\* the input-copy families of a call of kind fn at the row row, for the registers regs
InputCopiesOf(fn, row, regs) ==
    { Constraint("every", <<local_values("", FINAL_EXP_ROW_SELECTORS + row, 0)>>,
                 local_values("", regs[j], 1), local_values(InputOffsets(fn)[j], 0, 1), 24*3*2)
      : j \in DOMAIN InputOffsets(fn) }

\* the registers of the operands the schedule names for the step k (1..32)
ScheduleOperands(k) ==
    LET c == GenerateTraceCalls[k]
    IN  IF c.fn \in {"mul", "div"} THEN <<RegisterOf(c.a), RegisterOf(c.b)>>
        ELSE <<RegisterOf(c.a)>>

\* the registers the sub-trace of the step k is filled with: for the division, the
\* quotient and the divisor
WitnessOperands(k) ==
    LET c == GenerateTraceCalls[k]
    IN  IF c.fn = "div" THEN <<c.output_col, RegisterOf(c.b)>> ELSE ScheduleOperands(k)

\* C13 (as the specification states it): for every step the input-copy constraints
\* of the constructed STARK bind the registers of the operands the schedule table
\* names for the step.
C13_InputCopyOfScheduleOperands ==
    pc # "start" =>
        \A k \in 1..NumCalls :
            InputCopyFamilies(k)
                = InputCopiesOf(EvalCalls[k].fn, T_ROW[k - 1], ScheduleOperands(k))

\* C13 (amended): for every step and every input of its sub-STARK, the 144
\* constraints ROW_SELECTORS[start_row] * (register[i] - OP[sub_in_offset + i]) are
\* emitted (two inputs for a multiplication, one otherwise); the registers are the
\* operands the schedule names for the step, except for step 1, the division, whose
\* multiplication reads T1 and INPUT.  They hold on the trace generate_trace returns.
C13_InputCopyOfWitnessOperands ==
    /\ \A k \in 1..NumCalls :
           InputCopyFamilies(k)
               = InputCopiesOf(EvalCalls[k].fn, T_ROW[k - 1], WitnessOperands(k))
    /\ {k \in 1..NumCalls : WitnessOperands(k) # ScheduleOperands(k)} = {2}
    /\ WitnessOperands(2) = <<T(1), INPUT>>
    /\ (pc = "done" /\ num_rows >= TOTAL_ROW) =>
           \A k \in 1..NumCalls : \A f \in InputCopyFamilies(k) :
               /\ FamilyHolds(trace, f, T_ROW[k - 1])
               /\ \A i \in 0..(f.n - 1) :
                      TermValue(trace, f.gate[1], i, T_ROW[k - 1]) = Num(1)

C13_Witness ==
    /\ pc = "done" /\ num_rows = TOTAL_ROW /\ InputExponent # 0
    /\ \A k \in 1..NumCalls : \A f \in InputCopyFamilies(k) :
           /\ FamilyHolds(trace, f, T_ROW[k - 1])
           /\ TermValue(trace, f.b, 0, T_ROW[k - 1]).tag = "limb"

\* the offsets of the outputs of the sub-STARKs in the OP block
OutputOffsets ==
    {FORBENIUS_OUTPUT_OFFSET[j] : j \in 1..12} \cup {MUL_OUTPUT_OFFSET[k] : k \in 1..2}
    \cup {CYCLOTOMIC_SQ_OUTPUT_OFFSET[j] : j \in 1..6}
    \cup {"Z_OFFSET", "FP12_CONJUGATE_OUTPUT_OFFSET"}

\* the families of the call k of the emitter that read an output of a sub-STARK
OutputCopyFamilies(k) ==
    {f \in GlueConstraints[k] : f.a.op \in OutputOffsets \/ f.b.op \in OutputOffsets}

\* the side of an output-copy family that names a register, and the other one
RegisterSide(f) == IF f.a.op = "" THEN f.a ELSE f.b

OpSide(f) == IF f.a.op = "" THEN f.b ELSE f.a

\* the register cells the output-copy families of the call k read under the gate
OutputCells(k, gate) ==
    UNION { {RegisterSide(f).base + RegisterSide(f).step * i : i \in 0..(f.n - 1)} :
              f \in {g \in OutputCopyFamilies(k) : g.gate = gate} }

\* the 144 columns of the register at column col
RegisterColumns(col) == col..(col + 24*3*2 - 1)

\* the gate of the output copy of a cyclotomic exponentiation at the row row
ResRowGate(row) ==
    <<local_values("", FINAL_EXP_ROW_SELECTORS + row + CYCLOTOMIC_EXP_ROWS - 1, 0),
      local_values("RES_ROW_SELECTOR_OFFSET", 0, 0)>>

\* the register the sub-STARK's output is bound to: for the division, the dividend
BoundOutput(k) ==
    LET c == GenerateTraceCalls[k]
    IN  IF c.fn = "div" THEN RegisterOf(c.a) ELSE c.output_col

\* C14 (as the specification states it): for every step of the constructed STARK an
\* output-copy constraint under ROW_SELECTORS[start_row] is emitted for every limb of
\* the step's register Tk, and for a cyclotomic exponentiation also one under the row
\* selector of the last row and RES_ROW_SELECTOR.
C14_OutputCopyAtFirstRow ==
    pc # "start" =>
        \A k \in 1..NumCalls :
            /\ OutputCells(k, StartRowGate(T_ROW[k - 1]))
                   = RegisterColumns(GenerateTraceCalls[k].output_col)
            /\ EvalCalls[k].fn = "cyc_exp" =>
                   OutputCells(k, ResRowGate(T_ROW[k - 1]))
                       = RegisterColumns(GenerateTraceCalls[k].output_col)

\* C14 (amended): for every step that is not a cyclotomic exponentiation, the
\* output-copy constraints are emitted for the 144 limbs under
\* ROW_SELECTORS[start_row] and under no other gate; they read the step's register
\* Tk, except for step 1, the division, where they read T0.  For a cyclotomic
\* exponentiation they are emitted for the 144 limbs of Tk under the row selector
\* of the last row of the range times RES_ROW_SELECTOR only, and not at the first
\* row.  They hold on the trace generate_trace returns, where their gate is one.
C14_OutputCopyGates ==
    /\ \A k \in 1..NumCalls :
           LET gate == IF EvalCalls[k].fn = "cyc_exp" THEN ResRowGate(T_ROW[k - 1])
                       ELSE StartRowGate(T_ROW[k - 1])
           IN  /\ \A f \in OutputCopyFamilies(k) :
                      /\ f.gate = gate /\ f.when = "every"
                      /\ RegisterSide(f).src = "local" /\ OpSide(f).src = "local"
                      /\ OpSide(f).op \in OutputOffsets /\ RegisterSide(f).op = ""
               /\ OutputCells(k, gate) = RegisterColumns(BoundOutput(k))
    /\ {k \in 1..NumCalls : BoundOutput(k) # GenerateTraceCalls[k].output_col} = {2}
    /\ (pc = "done" /\ num_rows >= TOTAL_ROW) =>
           \A k \in 1..NumCalls :
               LET row == IF EvalCalls[k].fn = "cyc_exp" THEN T_ROW[k] - 1 ELSE T_ROW[k - 1]
               IN  \A f \in OutputCopyFamilies(k) :
                       /\ FamilyHolds(trace, f, row)
                       /\ \A g \in DOMAIN f.gate : TermValue(trace, f.gate[g], 0, row) = Num(1)

C14_Witness ==
    /\ pc = "done" /\ num_rows = TOTAL_ROW /\ InputExponent # 0
    /\ \A f \in OutputCopyFamilies(5) :
           /\ FamilyHolds(trace, f, T_ROW[5] - 1)
           /\ TermValue(trace, OpSide(f), 0, T_ROW[5] - 1).tag = "limb"
           /\ TermValue(trace, OpSide(f), 0, T_ROW[4]).tag = "opaque"

\* the degree of the polynomial of a family over trace cells
Degree(f) == Len(f.gate) + 1

\* the calls of the emitter that are cyclotomic exponentiations
CycExpCalls == {k \in 1..Len(EvalCalls) : EvalCalls[k].fn = "cyc_exp"}

\* the rows of the trace in which every factor of the gate of f is not zero
GateOpenRows(tr, f) ==
    {r \in Rows(tr) : \A g \in DOMAIN f.gate : TermValue(tr, f.gate[g], 0, r) # Num(0)}

\* C15: for the cyclotomic exponentiations (T4, T9, T11, T13, T17) the output copy
\* of the 144 limbs is gated by ROW_SELECTORS[start_row + CYCLOTOMIC_EXP_ROWS - 1] *
\* RES_ROW_SELECTOR and has degree 3, not above constraint_degree; on the trace
\* generate_trace returns the gate is not zero in the last (841st) row of the range
\* only, where Z equals Tk.
C15_CycExpOutputGate ==
    /\ CycExpCalls = {4 + 1, 9 + 1, 11 + 1, 13 + 1, 17 + 1}
    /\ \A k \in CycExpCalls :
           /\ OutputCopyFamilies(k) =
                  { Constraint("every", ResRowGate(T_ROW[k - 1]),
                               local_values("", T(k - 1), 1),
                               local_values("Z_OFFSET", 0, 1), 24*3*2) }
           /\ \A f \in OutputCopyFamilies(k) : Degree(f) = 3 /\ Degree(f) <= constraint_degree
           /\ T_ROW[k - 1] + CYCLOTOMIC_EXP_ROWS - 1 = T_ROW[k] - 1
           /\ T_ROW[k] - T_ROW[k - 1] = 841
    /\ \A f \in eval_packed_generic(num_rows) : Degree(f) <= 3
    /\ (pc = "done" /\ num_rows >= TOTAL_ROW) =>
           \A k \in CycExpCalls : \A f \in OutputCopyFamilies(k) :
               /\ GateOpenRows(trace, f) = {T_ROW[k] - 1}
               /\ FamilyHolds(trace, f, T_ROW[k] - 1)
               /\ {r \in T_ROW[k - 1]..(T_ROW[k] - 1) :
                      TermValue(trace, f.gate[2], 0, r) # Num(0)} = {T_ROW[k] - 1}

C15_Witness ==
    /\ pc = "done" /\ num_rows = MaxRows /\ InputExponent # 0
    /\ \A k \in CycExpCalls : \A f \in OutputCopyFamilies(k) :
           /\ GateOpenRows(trace, f) = {T_ROW[k] - 1}
           /\ TermValue(trace, f.b, 0, T_ROW[k] - 1).tag = "limb"

\* the families of a set that read the cell OP[FP12_FORBENIUS_MAP_POW_OFFSET]
PowFamilies(fs) ==
    {f \in fs : "FP12_FORBENIUS_MAP_POW_OFFSET" \in {f.a.op, f.b.op}
                    \/ \E g \in DOMAIN f.gate : f.gate[g].op = "FP12_FORBENIUS_MAP_POW_OFFSET"}

\* the calls of the emitter that are Frobenius maps: T0, T2, T20, T22, T25
ForbeniusCalls == <<0 + 1, 2 + 1, 20 + 1, 22 + 1, 25 + 1>>

\* the powers the claim lists for them
PinnedPows == <<6, 2, 2, 3, 1>>

\* C16: the constraint ROW_SELECTORS[start_row] * (OP[POW_OFFSET] - pow) = 0 is
\* emitted for the Frobenius steps T0, T2, T20, T22, T25 only, with pow = 6, 2, 2,
\* 3, 1, the power generate_trace passes to fill_trace_forbenius for the same step;
\* no other constraint of eval_packed_generic names OP[POW_OFFSET]; on the trace
\* generate_trace returns the cell holds that power in the first row of the step.
C16_PowPinnedForFrobeniusOnly ==
    /\ {k \in 1..Len(EvalCalls) : EvalCalls[k].fn = "forbenius"}
           = {ForbeniusCalls[n] : n \in 1..5}
    /\ {k \in 1..Len(EvalCalls) : PowFamilies(GlueConstraints[k]) # {}}
           = {ForbeniusCalls[n] : n \in 1..5}
    /\ \A n \in 1..5 :
           LET k == ForbeniusCalls[n]
           IN  /\ PowFamilies(GlueConstraints[k]) =
                      { Constraint("every", StartRowGate(T_ROW[k - 1]),
                                   local_values("FP12_FORBENIUS_MAP_POW_OFFSET", 0, 0),
                                   from_canonical_usize(PinnedPows[n]), 1) }
               /\ GenerateTraceCalls[k].fn = "forbenius"
               /\ GenerateTraceCalls[k].pow = PinnedPows[n]
               /\ GenerateTraceCalls[k].start_row = T_ROW[k - 1]
    /\ PowFamilies(eval_packed_generic(num_rows))
           = UNION {PowFamilies(GlueConstraints[ForbeniusCalls[n]]) : n \in 1..5}
    /\ (pc = "done" /\ num_rows >= TOTAL_ROW) =>
           \A n \in 1..5 : \A f \in PowFamilies(GlueConstraints[ForbeniusCalls[n]]) :
               /\ FamilyHolds(trace, f, T_ROW[ForbeniusCalls[n] - 1])
               /\ TermValue(trace, f.a, 0, T_ROW[ForbeniusCalls[n] - 1]) = Num(PinnedPows[n])

C16_Witness ==
    /\ pc = "done" /\ num_rows = TOTAL_ROW /\ InputExponent # 0
    /\ \A n \in 1..5 : \A f \in PowFamilies(GlueConstraints[ForbeniusCalls[n]]) :
           /\ TermValue(trace, f.gate[1], 0, T_ROW[ForbeniusCalls[n] - 1]) = Num(1)
           /\ TermValue(trace, f.a, 0, T_ROW[ForbeniusCalls[n] - 1]) = Num(PinnedPows[n])

\* the sub-STARK constraint sets that are not multiplied by zero in the row r
ActiveSubStarks(tr, r) ==
    {f.a.op : f \in {g \in SubStarkConstraints : TermValue(tr, g.gate[1], 0, r) # Num(0)}}

\* the kind of sub-STARK that checks the rows of a call of generate_trace
SubStarkKind(fn) == IF fn = "div" THEN "mul" ELSE fn

\* C17: each of the five sub-STARK constraint sets is emitted once, at
\* FINAL_EXP_OP_OFFSET, multiplied by the kind selector of its own kind in the local
\* row; in the trace generate_trace returns the only set active in a row
\* r < TOTAL_ROW is the one of the step whose range holds r, and none is active in a
\* row r >= TOTAL_ROW.
C17_SubStarkUnderOwnSelector ==
    /\ Cardinality(SubStarkConstraints) = 5
    /\ {f.a.op : f \in SubStarkConstraints}
           = {"forbenius", "mul", "cyc_exp", "conjugate", "cyc_sq"}
    /\ \A f \in SubStarkConstraints :
           f = Constraint("every", <<local_values("", KindSelectorColumn(f.a.op), 0)>>,
                          SubStark(f.a.op), ZEROS, 1)
    /\ pc = "done" =>
           \A r \in Rows(trace) :
               ActiveSubStarks(trace, r) =
                   IF r < TOTAL_ROW
                   THEN {SubStarkKind(GenerateTraceCalls[StepOfRow[r]].fn)}
                   ELSE {}

C17_Witness ==
    /\ pc = "done" /\ num_rows > FINAL_EXP_FORBENIUS_MAP_SELECTOR
    /\ FINAL_EXP_FORBENIUS_MAP_SELECTOR >= TOTAL_ROW
    /\ "forbenius" \in ActiveSubStarks(trace, FINAL_EXP_FORBENIUS_MAP_SELECTOR)

\* the rows 8192..8196 of a trace, the ones whose index is the column of a kind
\* selector
RowsPastSelectorBlock(tr) ==
    {r \in Rows(tr) : FINAL_EXP_FORBENIUS_MAP_SELECTOR <= r /\ r < FINAL_EXP_INPUT_OFFSET}

\* C18: for every height H >= TOTAL_ROW that new accepts, after the row-selector loop
\* of generate_trace the only cell of a row r < H that is one is ROW_SELECTORS[r],
\* a column of the ROW_SELECTORS block, so no kind selector is set by the loop; in
\* the trace generate_trace returns, the rows 8192..8196 have the five kind
\* selectors at zero.
C18_RowSelectorWriteInsideBlock ==
    /\ (pc = "filling" /\ call = 0 /\ num_rows >= TOTAL_ROW) =>
           \A r \in Rows(trace) :
               /\ OnesIn(trace, r) = {FINAL_EXP_ROW_SELECTORS + r}
               /\ OnesIn(trace, r) \subseteq RowSelectorColumns
    /\ pc = "done" =>
           \A r \in RowsPastSelectorBlock(trace) : KindSelectorsAt(trace, r) = {}

C18_Witness ==
    /\ pc = "filling" /\ call = 0 /\ num_rows > FINAL_EXP_FORBENIUS_MAP_SELECTOR
    /\ RowsPastSelectorBlock(trace) # {}
    /\ \A r \in RowsPastSelectorBlock(trace) :
           OnesIn(trace, r) = {FINAL_EXP_ROW_SELECTORS + r}
               /\ FINAL_EXP_ROW_SELECTORS + r \notin RowSelectorColumns

\* the instances of the output-copy constraints of the call k of the emitter: the
\* family and the index of the innermost loop
OutputInstances ==
    [k \in 1..NumCalls |->
        UNION { {<<f, i>> : i \in 0..(f.n - 1)} : f \in OutputCopyFamilies(k) }]

\* the limb of the output register an instance constrains, from 0
OutputLimb(k, inst) ==
    RegisterSide(inst[1]).base + RegisterSide(inst[1]).step * inst[2] - BoundOutput(k)

\* the cell of the OP block an instance reads
OutputOpCell(inst) ==
    <<OpSide(inst[1]).op, OpSide(inst[1]).base + OpSide(inst[1]).step * inst[2]>>

\* the limb of the sub-STARK's result that cell holds
OutputOpLimb(inst) == OpColumns[OutputOpCell(inst)[1]].limb + OutputOpCell(inst)[2]

\* the limbs the index map of the source reaches, by kind of step
IndexMapRange(fn) ==
    CASE fn = "forbenius" -> {j*12 + i : j \in 0..11, i \in 0..11}
      [] fn = "mul" -> {k*24*3 + j*12 + i : k \in 0..1, j \in 0..5, i \in 0..11}
      [] fn = "cyc_sq" -> {j*24 + k*12 + i : j \in 0..5, k \in 0..1, i \in 0..11}
      [] fn \in {"conjugate", "cyc_exp"} -> {i : i \in 0..(24*3*2 - 1)}

\* the index maps of the output copies of the 32 calls are bijections that keep the
\* index of the limb
IndexMapsBijective ==
    \A k \in 1..NumCalls :
        /\ Cardinality(OutputInstances[k]) = 24*3*2
        /\ {OutputLimb(k, inst) : inst \in OutputInstances[k]} = 0..(24*3*2 - 1)
        /\ {OutputLimb(k, inst) : inst \in OutputInstances[k]}
               = IndexMapRange(EvalCalls[k].fn)
        /\ Cardinality({OutputOpCell(inst) : inst \in OutputInstances[k]}) = 24*3*2
        /\ \A inst \in OutputInstances[k] : OutputOpLimb(inst) = OutputLimb(k, inst)

\* C19: for every step, the output-copy constraints constrain each of the 144 limbs
\* of the output register exactly once and against one cell of the OP block, no two
\* limbs against the same cell: the index maps of the five kinds are bijections
\* onto 0..143.  On the trace generate_trace returns each such pair of cells holds
\* the same limb of the step's result.
C19_OutputIndexMapsBijective ==
    /\ IndexMapsBijective
    /\ (pc = "done" /\ num_rows >= TOTAL_ROW) =>
           \A k \in 1..NumCalls :
               LET row == IF EvalCalls[k].fn = "cyc_exp" THEN T_ROW[k] - 1 ELSE T_ROW[k - 1]
               IN  \A inst \in OutputInstances[k] :
                       /\ TermValue(trace, RegisterSide(inst[1]), inst[2], row).i
                              = OutputLimb(k, inst)
                       /\ CellEq(TermValue(trace, RegisterSide(inst[1]), inst[2], row),
                                 TermValue(trace, OpSide(inst[1]), inst[2], row))

C19_Witness ==
    /\ pc = "done" /\ num_rows = TOTAL_ROW /\ InputExponent # 0
    /\ \E inst \in OutputInstances[NumCalls] :
           /\ OutputLimb(NumCalls, inst) = 24*3*2 - 1
           /\ TermValue(trace, OpSide(inst[1]), inst[2], T_ROW[NumCalls - 1])
                  = Limb(Local(NumCalls - 1), 24*3*2 - 1)
    /\ \E inst \in OutputInstances[7] :
           /\ OutputLimb(7, inst) = 24 + 12 + 1
           /\ OutputOpCell(inst) = <<CYCLOTOMIC_SQ_OUTPUT_OFFSET[2], 12 + 1>>
====
